---- MODULE Spec2Model ----
(***************************************************************************)
(* Model of the Realm access layer of copra-management                     *)
(* (src/database/realm.ts, RealmDatabase, the first class of the file).    *)
(*                                                                         *)
(* JavaScript runs one task at a time: a handler runs without interruption *)
(* up to its next `await`, where any other pending continuation may run.   *)
(* Every action below is one such uninterrupted segment of a method.       *)
(* The store (users, settings, receipts) is the Realm file: it outlives    *)
(* closeRealm and a failed open.  Realm.open and realm.write may fail; the *)
(* failure is a nondeterministic choice in the action that performs them.  *)
(***************************************************************************)
EXTENDS Integers, Sequences, FiniteSets, TLC

(* ------------------------------ bounds --------------------------------- *)
\* saveReceipt is not invoked once the ledger holds this many records
MaxReceipts == 2
\* Math.random() fallback numbers are drawn from 0..MaxRandom
MaxRandom == 1
\* new Date() returns a value of 0..MaxClock
MaxClock == 1
\* each printer service sends at most MaxPrints texts to a device
MaxPrints == 2

\* the concurrent callers: two UI handlers or the import-time initDatabase
Procs == { "p1", "p2" }

(* ------------------------- program constants --------------------------- *)
\* loginUser: const maxRetries = 3
maxRetries == 3
\* initialize: while (this.initializing && attempts < 50)
maxAttempts == 50
\* padStart(4, "0")
padWidth == 4
\* schemaVersion: 3 of the Realm.open configuration
schemaVersion == 3

DEFAULT_USERS ==
  << [username |-> "luansingjavier", password |-> "thgirb11"],
     [username |-> "admin", password |-> "admin123"] >>

DEFAULT_SETTINGS == [copraPrice |-> "0", transportationFee |-> "0"]

KEY_PRICE == "default_copra_price"
KEY_FEE == "default_transportation_fee"

(* ----------------------- strings as char sequences --------------------- *)
DigitChar == << "0", "1", "2", "3", "4", "5", "6", "7", "8", "9" >>

RECURSIVE NumToString(_)
\* Number.prototype.toString() of a non-negative integer
NumToString(n) ==
  IF n < 10 THEN << DigitChar[n + 1] >>
  ELSE NumToString(n \div 10) \o << DigitChar[(n % 10) + 1] >>

RECURSIVE padStart(_, _, _)
\* String.prototype.padStart(len, ch)
padStart(s, len, ch) ==
  IF Len(s) >= len THEN s ELSE padStart(<< ch >> \o s, len, ch)

\* `RCT-${n.toString().padStart(4, "0")}`
FormatReceiptNumber(n) ==
  << "R", "C", "T", "-" >> \o padStart(NumToString(n), padWidth, "0")

\* the fallback: `RCT-${Math.floor(Math.random() * 10000)...}`
RandomReceiptNumbers == { FormatReceiptNumber(r) : r \in 0..MaxRandom }

NoNumber == << >>

\* the form fields passed to saveReceipt (customer .. totalPrice)
Payloads ==
  { [customer |-> "Ana", address |-> "Lipa", copraPrice |-> "8.5",
     totalCopra |-> "1000", totalDeduction |-> "50",
     transportationFee |-> "100", totalPrice |-> "8175.00"],
    [customer |-> "Ben", address |-> "", copraPrice |-> "0",
     totalCopra |-> "0", totalDeduction |-> "0",
     transportationFee |-> "0", totalPrice |-> "0.00"] }

Usernames == { "admin", "maria" }
Passwords == { "admin123", "wrong" }
PriceValues == { "0", "8.50" }
FeeValues == { "0", "50" }

\* the two printer services PrinterServiceFactory chooses between
Services == { "real", "mock" }
\* MockPrinterService.mockPrinters; the devices paired with the phone
PrinterAddresses == { "11:22:33:44:55:66", "66:55:44:33:22:11" }
NoPrinter == "none"
NoPrint == [service |-> "none", outcome |-> "none", connected |-> FALSE]

\* an address that is not in MockPrinterService.mockPrinters
UnknownAddress == "00:00:00:00:00:00"
NoMockReturn == [call |-> "none", address |-> NoPrinter, value |-> FALSE]

\* no file of an earlier schema version (a first install)
NoRealm == [schemaVersion |-> 0, classes |-> { }, properties |-> { },
            users |-> << >>, settings |-> << >>, receipts |-> << >>]

\* user: null and error: null of the auth store
NoUser == "null"
NoError == "null"

(* ------------------------------- state --------------------------------- *)
VARIABLES
  realm,         \* this.realm !== null (a storage handle is held)
  initialized,   \* this.initialized
  initializing,  \* this.initializing
  users,         \* the User collection of the Realm file, in insertion order
                 \* (createdAt, which the layer never reads, is left out)
  settings,      \* the Setting collection
  receipts,      \* the Receipt collection
  clock,         \* the latest value new Date() returned
  pc,            \* per caller: the await it is suspended at
  op,            \* per caller: the method it is running
  arg,           \* per caller: the arguments of that method
  hasRealm,      \* per caller: the value its ensureRealm() resolved to
  retryCount,    \* per caller: loginUser's retryCount
  attempts,      \* per caller: initialize's attempts
  last,          \* the return made by the latest step, if any (observer)
  held,          \* per caller: the number its last generate call returned
  usedNumbers,   \* every receipt number ever stored (observer)
  candidate,     \* the number generate last returned from the store, until
                 \* the ledger changes (observer)
  savedDefaults, \* the values of the latest saveDefaultSettings call that
                 \* returned normally, until a resetDatabase (observer)
  connectedPrinter, \* per printer service: this.connectedPrinter
  printPc,       \* per printer service: where its printReceipt call stands
  sent,          \* per printer service: how many texts went to a device
  printReturn,   \* what the printReceipt call ending in the latest step
                 \* handed to its caller, if any (observer)
  mockPrinters,  \* MockPrinterService.mockPrinters: per entry, connected
  mockCalls,     \* the mock's connectToPrinter and disconnectPrinter calls
                 \* suspended at their timers
  mockReturn,    \* what the connectToPrinter or disconnectPrinter call of
                 \* the mock that ended last returned (observer)
  oldRealm,      \* the file of an earlier schema version that Realm.open
                 \* found on the device and handed to onMigration
  newRealm,      \* the file as onMigration left it, once it has returned
  home,          \* the receipt screen: where its transaction stands, the
                 \* form values, the number submitted and the number printed
  auth,          \* the auth store: user, isAuthenticated, isLoading, error
  staleLogin     \* per caller: its login call was in flight when logout
                 \* last ran (observer)

\* new Date(): a time not before the latest one returned
Now == clock..MaxClock

vars == << realm, initialized, initializing, users, settings, receipts, clock,
           pc, op, arg, hasRealm, retryCount, attempts, last, held,
           usedNumbers, candidate, savedDefaults, connectedPrinter, printPc,
           sent, printReturn, mockPrinters, mockCalls, mockReturn, home,
           auth, staleLogin, oldRealm, newRealm >>

mockVars == << mockPrinters, mockCalls, mockReturn >>
printerVars == << connectedPrinter, printPc, sent, printReturn, mockVars >>
databaseVars == << realm, initialized, initializing, users, settings,
                   receipts, clock, pc, op, arg, hasRealm, retryCount,
                   attempts, last, held, usedNumbers, candidate,
                   savedDefaults >>

\* the state of the screens and stores that call the database
appVars == << home, auth, staleLogin >>
\* the two files onMigration is handed
migrationVars == << oldRealm, newRealm >>
\* everything a method of the database leaves alone
clientVars == << printerVars, appVars, migrationVars >>

observers == << usedNumbers, candidate, savedDefaults >>

layerVars == << realm, initialized, initializing >>
storeVars == << users, settings, receipts >>

NoArg == [kind |-> "none"]
NoReturn == [proc |-> "none", op |-> "none", outcome |-> "none",
             applied |-> FALSE, path |-> "none", val |-> NoNumber,
             retries |-> 0]

Init ==
  /\ realm = FALSE
  /\ initialized = FALSE
  /\ initializing = FALSE
  /\ users = << >>
  /\ settings = << >>
  /\ receipts = << >>
  /\ clock = 0
  /\ pc = [p \in Procs |-> "idle"]
  /\ op = [p \in Procs |-> "none"]
  /\ arg = [p \in Procs |-> NoArg]
  /\ hasRealm = [p \in Procs |-> FALSE]
  /\ retryCount = [p \in Procs |-> 0]
  /\ attempts = [p \in Procs |-> 0]
  /\ last = NoReturn
  /\ held = [p \in Procs |-> NoNumber]
  /\ usedNumbers = { }
  /\ candidate = NoNumber
  /\ savedDefaults = NoArg
  /\ connectedPrinter = [s \in Services |-> NoPrinter]
  /\ printPc = [s \in Services |-> "idle"]
  /\ sent = [s \in Services |-> 0]
  /\ printReturn = NoPrint
  /\ mockPrinters = [a \in PrinterAddresses |-> FALSE]
  /\ mockCalls = { }
  /\ mockReturn = NoMockReturn
  /\ home = [pc |-> "mount", form |-> NoArg, submitted |-> NoNumber,
             printed |-> NoNumber]
  /\ auth = [user |-> NoUser, isAuthenticated |-> FALSE, isLoading |-> FALSE,
             error |-> NoError]
  /\ staleLogin = [p \in Procs |-> FALSE]
  /\ oldRealm = NoRealm
  /\ newRealm = NoRealm

(* ------------------------ helpers on collections ----------------------- *)
Range(f) == { f[i] : i \in DOMAIN f }

\* objects(T).filtered(cond)[0]: index of the first match, 0 when none
FirstIndex(seq, Test(_)) ==
  IF \E i \in 1..Len(seq) : Test(seq[i])
  THEN CHOOSE i \in 1..Len(seq) :
         Test(seq[i]) /\ \A j \in 1..(i - 1) : ~Test(seq[j])
  ELSE 0

ReceiptNumbers(rs) == { rs[i].receiptNumber : i \in 1..Len(rs) }

(* -------------------------- seeding (171-223) -------------------------- *)
DefaultUserRecords ==
  [i \in 1..Len(DEFAULT_USERS) |->
     [username |-> DEFAULT_USERS[i].username,
      password |-> DEFAULT_USERS[i].password]]

DefaultSettingRecords ==
  << [key |-> KEY_PRICE, value |-> DEFAULT_SETTINGS.copraPrice],
     [key |-> KEY_FEE, value |-> DEFAULT_SETTINGS.transportationFee] >>

\* a seeding that does not look at the operator count
SeedUsers_IgnoresCount(us, writeOk) ==
  IF writeOk THEN us \o DefaultUserRecords ELSE us

\* if (userCount === 0) { try { write(create DEFAULT_USERS) } catch { log } }
SeedUsers(us, writeOk) ==
  IF Len(us) = 0 /\ writeOk THEN DefaultUserRecords ELSE us

\* if (settingsCount === 0) { try { write(create both keys) } catch { log } }
SeedSettings(ss, writeOk) ==
  IF Len(ss) = 0 /\ writeOk THEN DefaultSettingRecords ELSE ss

(* ------------------------ receipt numbering (462-486) ------------------ *)
\* a numbering that trusts the count and does not probe
ProbeReceiptNumber_NoProbe(rs, receiptCount) ==
  FormatReceiptNumber(receiptCount + 1)

RECURSIVE ProbeReceiptNumber(_, _)
\* the while loop: bump receiptCount while the formatted number is stored
ProbeReceiptNumber(rs, receiptCount) ==
  LET newReceiptNumber == FormatReceiptNumber(receiptCount + 1)
  IN  IF newReceiptNumber \in ReceiptNumbers(rs)
      THEN ProbeReceiptNumber(rs, receiptCount + 1)
      ELSE newReceiptNumber

\* a numbering that formats the count and stops there
NextReceiptNumber_CountOnly(rs) == FormatReceiptNumber(Len(rs) + 1)

\* let receiptCount = receipts.length; probe from receiptCount + 1
NextReceiptNumber(rs) == ProbeReceiptNumber(rs, Len(rs))

(* ----------------------- bookkeeping of a caller ----------------------- *)
Result(o, outcome, applied, path, val) ==
  [proc |-> "none", op |-> o, outcome |-> outcome, applied |-> applied,
   path |-> path, val |-> val, retries |-> 0]

\* the method returns (or throws) to its caller
Return(p, r) ==
  /\ pc' = [pc EXCEPT ![p] = "idle"]
  /\ op' = [op EXCEPT ![p] = "none"]
  /\ arg' = [arg EXCEPT ![p] = NoArg]
  /\ hasRealm' = [hasRealm EXCEPT ![p] = FALSE]
  /\ retryCount' = [retryCount EXCEPT ![p] = 0]
  /\ attempts' = [attempts EXCEPT ![p] = 0]
  /\ last' = [r EXCEPT !.proc = p, !.retries = retryCount[p]]

\* the method suspends at the await named next
Suspend(p, next) ==
  /\ pc' = [pc EXCEPT ![p] = next]
  /\ last' = NoReturn
  /\ UNCHANGED << op, arg, hasRealm, retryCount, attempts >>

\* a method is invoked by an idle caller
Invoke(p, o, a) ==
  /\ pc[p] = "idle"
  /\ op' = [op EXCEPT ![p] = o]
  /\ arg' = [arg EXCEPT ![p] = a]
  /\ last' = NoReturn
  /\ UNCHANGED << retryCount, attempts >>

(* ----------------------- initRealm (101-168) --------------------------- *)
\* a guard that forgets the initialization in flight
InitRealmReturnsEarly_IgnoresInFlight == initialized

\* if (this.initialized || this.initializing) return;
InitRealmReturnsEarly == initialized \/ initializing

\* a failure path without the finally block
AfterOpenFailure_NoFinally ==
  [realm |-> FALSE, initialized |-> FALSE, initializing |-> initializing]

\* catch { this.realm = null; this.initialized = false; throw error }
\* finally { this.initializing = false }
AfterOpenFailure ==
  [realm |-> FALSE, initialized |-> FALSE, initializing |-> FALSE]

\* initRealm up to `await Realm.open(...)`; sets the caller's pc and hasRealm
\* (early: the pc when initRealm returned at once)
InitRealmEntry(p, early) ==
  IF InitRealmReturnsEarly
  THEN /\ pc' = [pc EXCEPT ![p] = early]
       /\ UNCHANGED << layerVars, hasRealm >>
  ELSE /\ initializing' = TRUE
       /\ pc' = [pc EXCEPT ![p] = "opening"]
       /\ UNCHANGED << realm, initialized, hasRealm >>

\* Realm.open resolves: this.realm = ..., this.initialized = true, and
\* initializeDefaultData() runs to its end (it holds no await); initRealm
\* then awaits its promise.  The schema version is the current one, so
\* onMigration is not run.
OpenSucceed(p) ==
  /\ pc[p] = "opening"
  /\ realm' = TRUE
  /\ initialized' = TRUE
  /\ \E usersWriteOk \in BOOLEAN, settingsWriteOk \in BOOLEAN :
       /\ users' = SeedUsers(users, usersWriteOk)
       /\ settings' = SeedSettings(settings, settingsWriteOk)
  /\ Suspend(p, "seeded")
  /\ UNCHANGED << clientVars, initializing, receipts, clock, held, observers >>

\* Realm.open rejects: catch { realm = null; initialized = false; throw }
\* finally { initializing = false }.  initialize() rethrows; ensureRealm
\* catches and resolves to false.
OpenFailed(p) ==
  /\ pc[p] = "opening"
  /\ realm' = AfterOpenFailure.realm
  /\ initialized' = AfterOpenFailure.initialized
  /\ initializing' = AfterOpenFailure.initializing
  /\ IF op[p] = "initialize"
     THEN Return(p, Result("initialize", "error", FALSE, "open", NoNumber))
     ELSE /\ pc' = [pc EXCEPT ![p] = "body"]
          /\ hasRealm' = [hasRealm EXCEPT ![p] = FALSE]
          /\ last' = NoReturn
          /\ UNCHANGED << op, arg, retryCount, attempts >>
  /\ UNCHANGED << storeVars, clock, held, observers >>

OpenFail(p) == OpenFailed(p) /\ UNCHANGED clientVars

\* initRealm resumes after `await this.initializeDefaultData()`:
\* finally { initializing = false }, and its promise resolves
InitRealmReturn(p) ==
  /\ pc[p] = "seeded"
  /\ initializing' = FALSE
  /\ Suspend(p, IF op[p] = "initialize" THEN "initCont" ELSE "ensureCont")
  /\ UNCHANGED << clientVars, realm, initialized, storeVars, clock, held, observers >>

(* ----------------------- onMigration (113-153) ------------------------- *)
\* the properties of Receipt that onMigration looks for in an old record
BackfilledProperties ==
  { "address", "copraPrice", "totalCopra", "totalDeduction",
    "transportationFee", "totalPrice" }

\* the properties of Receipt that onMigration does not look at
CarriedProperties == { "receiptNumber", "customer", "createdAt" }

\* the value the i-th receipt of an old file holds in a property
OldValue(property, i) ==
  CASE property = "receiptNumber" -> FormatReceiptNumber(i)
    [] property = "customer" -> "Ana"
    [] property = "createdAt" -> 0
    [] property = "address" -> "Lipa"
    [] OTHER -> "12"

\* the receipts of an old file whose Receipt class has the given properties
OldReceipts(properties, n) ==
  [i \in 1..n |-> [property \in properties |-> OldValue(property, i)]]

\* the files the build with schemaVersion 1 leaves (User and Setting only,
\* lines 736-739 of the earlier copy of the class)
VersionOneFiles ==
  { [schemaVersion |-> 1, classes |-> { "User", "Setting" },
     properties |-> { }, users |-> us, settings |-> ss, receipts |-> << >>] :
      us \in { << >>, DefaultUserRecords },
      ss \in { << >>, DefaultSettingRecords } }

\* the files of a version that had Receipt with some of today's properties
VersionTwoFiles ==
  { [schemaVersion |-> 2, classes |-> { "User", "Setting", "Receipt" },
     properties |-> CarriedProperties \cup added, users |-> us,
     settings |-> ss,
     receipts |-> OldReceipts(CarriedProperties \cup added, n)] :
      added \in SUBSET BackfilledProperties,
      us \in { << >>, DefaultUserRecords },
      ss \in { << >>, DefaultSettingRecords },
      n \in 0..MaxReceipts }

\* oldRealm.objects<Receipt>("Receipt") throws when the file has no such
\* object type
OnMigrationThrows(old) ==
  old.schemaVersion < schemaVersion /\ "Receipt" \notin old.classes

\* a migration that writes the default whatever the old record holds
MigratedProperty_Overwrites(oldReceipt, property) ==
  IF property = "address" THEN "" ELSE "0"

\* if (!("address" in oldReceipts[i])) newReceipt.address = "";
\* if (!("copraPrice" in oldReceipts[i])) newReceipt.copraPrice = "0"; ...
\* A property the old record holds keeps the value the schema update
\* copied into newReceipts[i].
MigratedProperty(oldReceipt, property) ==
  IF ~(property \in DOMAIN oldReceipt)
  THEN IF property = "address" THEN "" ELSE "0"
  ELSE oldReceipt[property]

\* newReceipts[i] after the body of the loop
MigratedReceipt(oldReceipt) ==
  [receiptNumber |-> oldReceipt.receiptNumber,
   customer |-> oldReceipt.customer,
   address |-> MigratedProperty(oldReceipt, "address"),
   copraPrice |-> MigratedProperty(oldReceipt, "copraPrice"),
   totalCopra |-> MigratedProperty(oldReceipt, "totalCopra"),
   totalDeduction |-> MigratedProperty(oldReceipt, "totalDeduction"),
   transportationFee |-> MigratedProperty(oldReceipt, "transportationFee"),
   totalPrice |-> MigratedProperty(oldReceipt, "totalPrice"),
   createdAt |-> oldReceipt.createdAt]

\* newRealm when onMigration returns: the loop has visited every index of
\* oldReceipts; users and settings are not touched
OnMigration(old) ==
  [schemaVersion |-> schemaVersion,
   classes |-> { "User", "Setting", "Receipt" },
   properties |-> CarriedProperties \cup BackfilledProperties,
   users |-> old.users,
   settings |-> old.settings,
   receipts |-> [i \in 1..Len(old.receipts) |->
                   MigratedReceipt(old.receipts[i])]]

\* Realm.open finds a file of an earlier schema version and runs
\* onMigration.  When onMigration throws the open rejects, the file stays
\* as it was and initRealm takes its catch path; otherwise the upgraded
\* file is the open store and initializeDefaultData runs on it.
OpenMigrating(p, old) ==
  /\ pc[p] = "opening"
  /\ newRealm = NoRealm
  /\ oldRealm \in { NoRealm, old }
  /\ oldRealm' = old
  /\ IF OnMigrationThrows(old)
     THEN /\ newRealm' = NoRealm
          /\ OpenFailed(p)
     ELSE /\ newRealm' = OnMigration(old)
          /\ realm' = TRUE
          /\ initialized' = TRUE
          /\ \E usersWriteOk \in BOOLEAN, settingsWriteOk \in BOOLEAN :
               /\ users' = SeedUsers(newRealm'.users, usersWriteOk)
               /\ settings' = SeedSettings(newRealm'.settings,
                                           settingsWriteOk)
          /\ receipts' = newRealm'.receipts
          /\ Suspend(p, "seeded")
          /\ UNCHANGED << initializing, clock, held, observers >>
  /\ UNCHANGED << printerVars, appVars >>

(* ----------------------- initialize (606-641) -------------------------- *)
\* initialize() up to its first await
CallInitialize(p) ==
  /\ pc[p] = "idle"
  /\ IF initialized
     THEN /\ Return(p, Result("initialize", "ok", FALSE, "ready", NoNumber))
          /\ UNCHANGED layerVars
     ELSE IF initializing
     THEN \* attempts = 0; the loop condition holds; await the timer
          /\ pc' = [pc EXCEPT ![p] = "poll"]
          /\ op' = [op EXCEPT ![p] = "initialize"]
          /\ last' = NoReturn
          /\ UNCHANGED << layerVars, arg, hasRealm, retryCount, attempts >>
     ELSE /\ Invoke(p, "initialize", NoArg)
          /\ InitRealmEntry(p, "initCont")
  /\ UNCHANGED << clientVars, storeVars, clock, held, observers >>

\* a wait that gives up after its first timer
PollAgain_OnePoll(p) == FALSE

\* attempts++; while (this.initializing && attempts < 50)
PollAgain(p) == initializing /\ attempts[p] + 1 < maxAttempts

\* the 100 ms timer fires: attempts++, then the loop condition again
PollWake(p) ==
  /\ pc[p] = "poll"
  /\ IF PollAgain(p)
     THEN /\ attempts' = [attempts EXCEPT ![p] = attempts[p] + 1]
          /\ last' = NoReturn
          /\ UNCHANGED << pc, op, arg, hasRealm, retryCount >>
     ELSE IF initialized
     THEN Return(p, Result("initialize", "ok", FALSE, "waited", NoNumber))
     ELSE Return(p, Result("initialize", "error", FALSE, "waited", NoNumber))
  /\ UNCHANGED << clientVars, layerVars, storeVars, clock, held, observers >>

\* initialize() resumes after `await this.initRealm()`:
\* if (!this.initialized) throw
InitializeResume(p) ==
  /\ pc[p] = "initCont"
  /\ IF initialized
     THEN Return(p, Result("initialize", "ok", FALSE, "open", NoNumber))
     ELSE Return(p, Result("initialize", "error", FALSE, "open", NoNumber))
  /\ UNCHANGED << clientVars, layerVars, storeVars, clock, held, observers >>

\* a close that drops the handle and keeps the flag
AfterClose_KeepsFlag == [realm |-> FALSE, initialized |-> TRUE]

\* this.realm.close(); this.realm = null; this.initialized = false
AfterClose == [realm |-> FALSE, initialized |-> FALSE]

\* closeRealm(): synchronous, called by no method of the layer
CloseRealm ==
  /\ realm
  /\ realm' = AfterClose.realm
  /\ initialized' = AfterClose.initialized
  /\ last' = NoReturn
  /\ UNCHANGED << clientVars, initializing, storeVars, clock, pc, op, arg, hasRealm,
                  retryCount, attempts, held, observers >>

(* ----------------------- ensureRealm (226-245) ------------------------- *)
\* ensureRealm() up to its first await or its return
EnsureRealmEntry(p) ==
  IF ~realm /\ ~initialized
  THEN InitRealmEntry(p, "ensureCont")
  ELSE /\ pc' = [pc EXCEPT ![p] = "body"]
       /\ hasRealm' = [hasRealm EXCEPT ![p] = realm]
       /\ UNCHANGED layerVars

\* ensureRealm resumes after `await this.initRealm()`:
\* if (!this.realm) return false; return true
EnsureRealmResume(p) ==
  /\ pc[p] = "ensureCont"
  /\ pc' = [pc EXCEPT ![p] = "body"]
  /\ hasRealm' = [hasRealm EXCEPT ![p] = realm]
  /\ last' = NoReturn
  /\ UNCHANGED << clientVars, layerVars, storeVars, clock, op, arg, retryCount, attempts,
                  held, observers >>

\* a public method other than initialize is invoked: await ensureRealm()
MethodCalled(p, o, a) ==
  /\ Invoke(p, o, a)
  /\ EnsureRealmEntry(p)
  /\ UNCHANGED << storeVars, clock, held, observers >>

\* the method is invoked by a caller that keeps no state of its own
CallOp(p, o, a) ==
  /\ MethodCalled(p, o, a)
  /\ UNCHANGED clientVars

\* the method resumes after `await this.ensureRealm()`
AtBody(p, o) == pc[p] = "body" /\ op[p] = o

(* ----------------------- loginUser (250-294) --------------------------- *)
\* a lookup that compares the username only
LoginLookup_UsernameOnly(p) ==
  LET match(u) == u.username = arg[p].username
  IN  IF ~realm
      THEN Return(p, Result("login", "ok", FALSE, "fallback", FALSE))
      ELSE Return(p, Result("login", "ok", FALSE, "store",
                            FirstIndex(users, match) # 0))

\* after the retry loop: if (!this.realm) return false; else the lookup
LoginLookup(p) ==
  LET match(u) == u.username = arg[p].username /\ u.password = arg[p].password
  IN  IF ~realm
      THEN Return(p, Result("login", "ok", FALSE, "fallback", FALSE))
      ELSE Return(p, Result("login", "ok", FALSE, "store",
                            FirstIndex(users, match) # 0))

CallLogin(p, username, password) ==
  CallOp(p, "login", [username |-> username, password |-> password])

\* const hasRealm = await this.ensureRealm(): break, or retryCount++ and
\* await the 500 ms timer
LoginResumed(p) ==
  /\ AtBody(p, "login")
  /\ IF hasRealm[p]
     THEN LoginLookup(p)
     ELSE /\ retryCount' = [retryCount EXCEPT ![p] = retryCount[p] + 1]
          /\ pc' = [pc EXCEPT ![p] = "loginSleep"]
          /\ last' = NoReturn
          /\ UNCHANGED << op, arg, hasRealm, attempts >>
  /\ UNCHANGED << layerVars, storeVars, clock, held, observers >>

\* loginUser resumes for a caller that keeps no state of its own
LoginResume(p) ==
  /\ LoginResumed(p)
  /\ UNCHANGED clientVars

\* the timer fires: while (retryCount < maxRetries) ensureRealm() again
LoginWoken(p) ==
  /\ pc[p] = "loginSleep"
  /\ IF retryCount[p] < maxRetries
     THEN /\ EnsureRealmEntry(p)
          /\ last' = NoReturn
          /\ UNCHANGED << op, arg, retryCount, attempts >>
     ELSE /\ LoginLookup(p)
          /\ UNCHANGED layerVars
  /\ UNCHANGED << storeVars, clock, held, observers >>

\* the timer fires for a caller that keeps no state of its own
LoginWake(p) ==
  /\ LoginWoken(p)
  /\ UNCHANGED clientVars

(* ----------------------- registerUser (297-332) ------------------------ *)
CallRegister(p, username, password) ==
  CallOp(p, "register", [username |-> username, password |-> password])

\* a registration that does not look for the username
ExistingUser_NoCheck(us, username) == FALSE

\* objects(User).filtered("username == $0", username)[0]
ExistingUser(us, username) ==
  FirstIndex(us, LAMBDA u : u.username = username) # 0

RegisterBody(p) ==
  /\ AtBody(p, "register")
  /\ LET new == [username |-> arg[p].username, password |-> arg[p].password]
     IN  IF ~hasRealm[p]
         THEN \* logged, return
              /\ Return(p, Result("register", "ok", FALSE, "fallback", NoNumber))
              /\ UNCHANGED users
         ELSE IF ~realm
         THEN \* this.realm!.objects throws; catch { throw error }
              /\ Return(p, Result("register", "error", FALSE, "store", NoNumber))
              /\ UNCHANGED users
         ELSE IF ExistingUser(users, arg[p].username)
         THEN /\ Return(p, Result("register", "ok", FALSE, "exists", NoNumber))
              /\ UNCHANGED users
         ELSE \E writeOk \in BOOLEAN :
                IF writeOk
                THEN /\ users' = Append(users, new)
                     /\ Return(p, Result("register", "ok", TRUE, "store", NoNumber))
                ELSE /\ UNCHANGED users
                     /\ Return(p, Result("register", "error", FALSE, "store",
                                         NoNumber))
  /\ UNCHANGED << clientVars, layerVars, settings, receipts, clock, held, observers >>

(* ----------------------- getAllUsers (335-355) ------------------------- *)
CallGetAllUsers(p) == CallOp(p, "getAllUsers", NoArg)

GetAllUsersBody(p) ==
  /\ AtBody(p, "getAllUsers")
  /\ IF ~hasRealm[p]
     THEN Return(p, Result("getAllUsers", "ok", FALSE, "fallback", << >>))
     ELSE IF ~realm
     THEN Return(p, Result("getAllUsers", "ok", FALSE, "fallback", << >>))
     ELSE Return(p, Result("getAllUsers", "ok", FALSE, "store",
            [i \in 1..Len(users) |->
               [username |-> users[i].username,
                password |-> users[i].password]]))
  /\ UNCHANGED << clientVars, layerVars, storeVars, clock, held, observers >>

(* ----------------------- settings (358-450) ---------------------------- *)
\* a write that creates a record without looking for the key
UpsertSetting_AlwaysCreate(ss, k, v) == Append(ss, [key |-> k, value |-> v])

\* one realm.write: set the value of the record found, or create the record
UpsertSetting(ss, k, v) ==
  LET i == FirstIndex(ss, LAMBDA st : st.key = k)
  IN  IF i # 0 THEN [ss EXCEPT ![i].value = v]
      ELSE Append(ss, [key |-> k, value |-> v])

\* a read that ignores the stored record
SettingOr_AlwaysDefault(ss, k, default) == default

\* the value of key k, or the hardcoded default
SettingOr(ss, k, default) ==
  LET i == FirstIndex(ss, LAMBDA st : st.key = k)
  IN  IF i # 0 THEN ss[i].value ELSE default

CallSaveDefaultSettings(p, copraPrice, transportationFee) ==
  CallOp(p, "saveDefaults",
         [copraPrice |-> copraPrice, transportationFee |-> transportationFee])

SaveDefaultSettingsBody(p) ==
  /\ AtBody(p, "saveDefaults")
  /\ IF ~hasRealm[p]
     THEN /\ Return(p, Result("saveDefaults", "ok", FALSE, "fallback", NoNumber))
          /\ UNCHANGED settings
     ELSE IF ~realm
     THEN /\ Return(p, Result("saveDefaults", "error", FALSE, "store", NoNumber))
          /\ UNCHANGED settings
     ELSE \E priceWriteOk \in BOOLEAN, feeWriteOk \in BOOLEAN :
            LET afterPrice == UpsertSetting(settings, KEY_PRICE,
                                            arg[p].copraPrice)
                afterFee == UpsertSetting(afterPrice, KEY_FEE,
                                          arg[p].transportationFee)
            IN  IF ~priceWriteOk
                THEN /\ UNCHANGED settings
                     /\ Return(p, Result("saveDefaults", "error", FALSE,
                                         "store", NoNumber))
                ELSE IF ~feeWriteOk
                THEN /\ settings' = afterPrice
                     /\ Return(p, Result("saveDefaults", "error", FALSE,
                                         "partial", NoNumber))
                ELSE /\ settings' = afterFee
                     /\ Return(p, Result("saveDefaults", "ok", TRUE, "store",
                                         NoNumber))
  /\ savedDefaults' = IF last'.outcome = "ok" THEN arg[p] ELSE savedDefaults
  /\ UNCHANGED << clientVars, layerVars, users, receipts, clock, held, usedNumbers,
                  candidate >>

CallGetDefaultSettings(p) == CallOp(p, "getDefaults", NoArg)

GetDefaultSettingsBody(p) ==
  /\ AtBody(p, "getDefaults")
  /\ IF ~hasRealm[p]
     THEN Return(p, Result("getDefaults", "ok", FALSE, "fallback",
                           DEFAULT_SETTINGS))
     ELSE IF ~realm
     THEN Return(p, Result("getDefaults", "ok", FALSE, "fallback",
                           DEFAULT_SETTINGS))
     ELSE Return(p, Result("getDefaults", "ok", FALSE, "store",
            [copraPrice |->
               SettingOr(settings, KEY_PRICE, DEFAULT_SETTINGS.copraPrice),
             transportationFee |->
               SettingOr(settings, KEY_FEE,
                         DEFAULT_SETTINGS.transportationFee)]))
  /\ UNCHANGED << clientVars, layerVars, storeVars, clock, held, observers >>

(* ----------------- generateUniqueReceiptNumber (453-494) --------------- *)
CallGenerateUniqueReceiptNumber(p) == CallOp(p, "generate", NoArg)

GenerateUniqueReceiptNumberBody(p) ==
  /\ AtBody(p, "generate")
  /\ IF ~hasRealm[p] \/ ~realm
     THEN \* not initialized, or this.realm!.objects throws: a random number
          \E n \in RandomReceiptNumbers :
            /\ Return(p, Result("generate", "ok", FALSE, "fallback", n))
            /\ held' = [held EXCEPT ![p] = n]
            /\ UNCHANGED candidate
     ELSE /\ Return(p, Result("generate", "ok", FALSE, "store",
                              NextReceiptNumber(receipts)))
          /\ held' = [held EXCEPT ![p] = NextReceiptNumber(receipts)]
          /\ candidate' = NextReceiptNumber(receipts)
  /\ UNCHANGED << clientVars, layerVars, storeVars, clock, usedNumbers, savedDefaults >>

(* ----------------------- saveReceipt (497-547) ------------------------- *)
\* the record realm.create(Receipt, {...}) stores
NewReceipt(receiptNumber, fields, now) ==
  [receiptNumber |-> receiptNumber,
   customer |-> fields.customer,
   address |-> fields.address,
   copraPrice |-> fields.copraPrice,
   totalCopra |-> fields.totalCopra,
   totalDeduction |-> fields.totalDeduction,
   transportationFee |-> fields.transportationFee,
   totalPrice |-> fields.totalPrice,
   createdAt |-> now]

\* an insert that overwrites the latest record instead of adding one
InsertReceipt_Overwrite(rs, r) ==
  IF Len(rs) = 0 THEN << r >> ELSE [rs EXCEPT ![Len(rs)] = r]

\* this.realm!.write(() => this.realm!.create(Receipt, {...}))
InsertReceipt(rs, r) == Append(rs, r)

\* a save that does not look for the number first
ExistingReceipt_NoCheck(rs, receiptNumber) == 0

\* const existingReceipt = objects(Receipt).filtered("receiptNumber == $0")[0]
ExistingReceipt(rs, receiptNumber) ==
  FirstIndex(rs, LAMBDA r : r.receiptNumber = receiptNumber)

CallSaveReceipt(p, receiptNumber, fields) ==
  /\ Len(receipts) < MaxReceipts
  /\ CallOp(p, "saveReceipt",
            [receiptNumber |-> receiptNumber, fields |-> fields])

SaveReceiptBody(p) ==
  /\ AtBody(p, "saveReceipt")
  /\ LET n == arg[p].receiptNumber
     IN  IF ~hasRealm[p]
         THEN /\ Return(p, Result("saveReceipt", "ok", FALSE, "fallback", n))
              /\ UNCHANGED << receipts, clock, observers >>
         ELSE IF ~realm
         THEN \* this.realm!.objects throws; catch { console.error }
              /\ Return(p, Result("saveReceipt", "ok", FALSE, "swallowed", n))
              /\ UNCHANGED << receipts, clock, observers >>
         ELSE IF ExistingReceipt(receipts, n) # 0
         THEN /\ Return(p, Result("saveReceipt", "ok", FALSE, "exists", n))
              /\ UNCHANGED << receipts, clock, observers >>
         ELSE \E writeOk \in BOOLEAN, now \in Now :
                IF writeOk
                THEN /\ receipts' =
                          InsertReceipt(receipts,
                                        NewReceipt(n, arg[p].fields, now))
                     /\ clock' = now
                     /\ usedNumbers' = usedNumbers \cup { n }
                     /\ candidate' = NoNumber
                     /\ UNCHANGED savedDefaults
                     /\ Return(p, Result("saveReceipt", "ok", TRUE, "store", n))
                ELSE \* realm.write throws; catch { console.error }
                     /\ UNCHANGED << receipts, clock, observers >>
                     /\ Return(p, Result("saveReceipt", "ok", FALSE,
                                         "swallowed", n))
  /\ UNCHANGED << clientVars, layerVars, users, settings, held >>

(* ----------------------- getAllReceipts (550-577) ---------------------- *)
\* a listing in insertion order
SortedByCreatedAtDesc_Unsorted(rs) == { rs }

\* objects(Receipt).sorted("createdAt", true): the records, latest first;
\* the order of records created at the same time is not specified
SortedByCreatedAtDesc(rs) ==
  { s \in [1..Len(rs) -> Range(rs)] :
      /\ \E f \in [1..Len(rs) -> 1..Len(rs)] :
           /\ \A i, j \in 1..Len(rs) : i # j => f[i] # f[j]
           /\ \A i \in 1..Len(rs) : s[i] = rs[f[i]]
      /\ \A i \in 1..(Len(rs) - 1) : s[i].createdAt >= s[i + 1].createdAt }

CallGetAllReceipts(p) == CallOp(p, "getAllReceipts", NoArg)

GetAllReceiptsBody(p) ==
  /\ AtBody(p, "getAllReceipts")
  /\ IF ~hasRealm[p] \/ ~realm
     THEN Return(p, Result("getAllReceipts", "ok", FALSE, "fallback", << >>))
     ELSE \E s \in SortedByCreatedAtDesc(receipts) :
            Return(p, Result("getAllReceipts", "ok", FALSE, "store", s))
  /\ UNCHANGED << clientVars, layerVars, storeVars, clock, held, observers >>

(* ----------------------- resetDatabase (580-603) ----------------------- *)
CallResetDatabase(p) == CallOp(p, "reset", NoArg)

\* write(deleteAll), then initializeDefaultData() runs to its end
ResetDatabaseBody(p) ==
  /\ AtBody(p, "reset")
  /\ IF ~hasRealm[p]
     THEN /\ Return(p, Result("reset", "ok", FALSE, "fallback", NoNumber))
          /\ UNCHANGED << storeVars, candidate, savedDefaults >>
     ELSE IF ~realm
     THEN /\ Return(p, Result("reset", "error", FALSE, "store", NoNumber))
          /\ UNCHANGED << storeVars, candidate, savedDefaults >>
     ELSE \E deleteOk \in BOOLEAN, usersWriteOk \in BOOLEAN,
             settingsWriteOk \in BOOLEAN :
            IF ~deleteOk
            THEN /\ Return(p, Result("reset", "error", FALSE, "store",
                                     NoNumber))
                 /\ UNCHANGED << storeVars, candidate, savedDefaults >>
            ELSE /\ users' = SeedUsers(<< >>, usersWriteOk)
                 /\ settings' = SeedSettings(<< >>, settingsWriteOk)
                 /\ receipts' = << >>
                 /\ candidate' = NoNumber
                 /\ savedDefaults' = NoArg
                 /\ Return(p, Result("reset", "ok", TRUE, "store", NoNumber))
  /\ UNCHANGED << clientVars, layerVars, clock, held, usedNumbers >>

(* ------------- printer services (PrinterService, Mock...) -------------- *)
\* what a printReceipt call hands to its caller; connected tells whether a
\* printer was connected when the call was made
PrintResult(s, outcome, connected) ==
  [service |-> s, outcome |-> outcome, connected |-> connected]

\* what a connectToPrinter or disconnectPrinter call of the mock returns
MockReturned(call, address, value) ==
  [call |-> call, address |-> address, value |-> value]

\* a pending call of the mock, suspended at its timer
MockCall(call, address) == [call |-> call, address |-> address]

\* connectToPrinter(printerAddress).  The real service connects when
\* BluetoothManager.connect resolves and the address is among the paired
\* devices.  The mock looks the address up in mockPrinters: it returns
\* false at once when it is not there and awaits its 1 s timer otherwise.
ConnectToPrinter(s, printerAddress) ==
  /\ IF s = "mock"
     THEN IF printerAddress \in PrinterAddresses
          THEN /\ mockCalls' =
                    mockCalls \cup { MockCall("connect", printerAddress) }
               /\ mockReturn' = NoMockReturn
               /\ UNCHANGED << connectedPrinter, mockPrinters >>
          ELSE /\ mockReturn' = MockReturned("connect", printerAddress, FALSE)
               /\ UNCHANGED << connectedPrinter, mockPrinters, mockCalls >>
     ELSE /\ \E connects \in BOOLEAN :
               connectedPrinter' =
                 IF connects /\ printerAddress \in PrinterAddresses
                 THEN [connectedPrinter EXCEPT ![s] = printerAddress]
                 ELSE connectedPrinter
          /\ UNCHANGED mockVars
  /\ printReturn' = NoPrint
  /\ UNCHANGED << printPc, sent, databaseVars, appVars, migrationVars >>

\* a list that marks every entry connected
ConnectedList_MarksAll(printerAddress) == [a \in PrinterAddresses |-> TRUE]

\* this.mockPrinters.map((p) => ({ ...p,
\*   connected: p.address === printerAddress }))
ConnectedList(printerAddress) ==
  [a \in PrinterAddresses |-> a = printerAddress]

\* the mock's connectToPrinter resumes after its timer: connectedPrinter
\* and the list are set, it returns true
MockConnectResume(printerAddress) ==
  /\ MockCall("connect", printerAddress) \in mockCalls
  /\ mockCalls' = mockCalls \ { MockCall("connect", printerAddress) }
  /\ connectedPrinter' = [connectedPrinter EXCEPT !["mock"] = printerAddress]
  /\ mockPrinters' = ConnectedList(printerAddress)
  /\ mockReturn' = MockReturned("connect", printerAddress, TRUE)
  /\ printReturn' = NoPrint
  /\ UNCHANGED << printPc, sent, databaseVars, appVars, migrationVars >>

\* disconnectPrinter().  The real service returns false when
\* BluetoothManager.disconnect rejects.  The mock, called with a printer
\* connected (it returns false at once without one), awaits its 500 ms
\* timer.
DisconnectPrinter(s) ==
  /\ connectedPrinter[s] # NoPrinter
  /\ IF s = "mock"
     THEN /\ mockCalls' = mockCalls \cup { MockCall("disconnect", NoPrinter) }
          /\ mockReturn' = NoMockReturn
          /\ UNCHANGED << connectedPrinter, mockPrinters >>
     ELSE /\ \E disconnects \in BOOLEAN :
               connectedPrinter' =
                 IF disconnects
                 THEN [connectedPrinter EXCEPT ![s] = NoPrinter]
                 ELSE connectedPrinter
          /\ UNCHANGED mockVars
  /\ printReturn' = NoPrint
  /\ UNCHANGED << printPc, sent, databaseVars, appVars, migrationVars >>

\* the mock's disconnectPrinter resumes after its timer: every entry of the
\* list is marked not connected, connectedPrinter = null, it returns true
MockDisconnectResume ==
  /\ MockCall("disconnect", NoPrinter) \in mockCalls
  /\ mockCalls' = mockCalls \ { MockCall("disconnect", NoPrinter) }
  /\ mockPrinters' = [a \in PrinterAddresses |-> FALSE]
  /\ connectedPrinter' = [connectedPrinter EXCEPT !["mock"] = NoPrinter]
  /\ mockReturn' = MockReturned("disconnect", NoPrinter, TRUE)
  /\ printReturn' = NoPrint
  /\ UNCHANGED << printPc, sent, databaseVars, appVars, migrationVars >>

\* EVENT_CONNECTION_LOST: onConnectionLost of the real service
ConnectionLost ==
  /\ connectedPrinter["real"] # NoPrinter
  /\ connectedPrinter' = [connectedPrinter EXCEPT !["real"] = NoPrinter]
  /\ printReturn' = NoPrint
  /\ UNCHANGED << printPc, sent, mockVars, databaseVars, appVars,
                  migrationVars >>

\* printReceipt with no printer connected: both services throw
\* Error("No printer connected"); the real service catches it and returns
\* false, the mock has no try around it
PrintWithoutPrinter(s) == IF s = "real" THEN "false" ELSE "throws"

\* printReceipt(receipt) is called: without a printer it ends at once;
\* otherwise the real service awaits BluetoothEscposPrinter.printText and
\* the mock logs the text and awaits its 2 s timer
PrintReceiptCalled(s) ==
  /\ printPc[s] = "idle"
  /\ sent[s] < MaxPrints
  /\ IF connectedPrinter[s] = NoPrinter
     THEN /\ printReturn' = PrintResult(s, PrintWithoutPrinter(s), FALSE)
          /\ UNCHANGED << printPc, sent >>
     ELSE /\ printPc' = [printPc EXCEPT ![s] = "printing"]
          /\ sent' = IF s = "mock" THEN [sent EXCEPT ![s] = sent[s] + 1]
                     ELSE sent
          /\ printReturn' = NoPrint
  /\ UNCHANGED << connectedPrinter, mockVars >>

\* printReceipt is called by a caller that keeps no state of its own
PrintReceiptCall(s) ==
  /\ PrintReceiptCalled(s)
  /\ UNCHANGED << databaseVars, appVars, migrationVars >>

\* the awaited promise settles: printText resolved (the text went to the
\* device) or rejected, caught and answered with false; the mock's timer
\* fired
PrintReceiptSettled(s) ==
  /\ printPc[s] = "printing"
  /\ printPc' = [printPc EXCEPT ![s] = "idle"]
  /\ \E written \in BOOLEAN :
       IF s = "mock"
       THEN /\ printReturn' = PrintResult(s, "true", TRUE)
            /\ UNCHANGED sent
       ELSE IF written
       THEN /\ sent' = [sent EXCEPT ![s] = sent[s] + 1]
            /\ printReturn' = PrintResult(s, "true", TRUE)
       ELSE /\ printReturn' = PrintResult(s, "false", TRUE)
            /\ UNCHANGED sent
  /\ UNCHANGED << connectedPrinter, mockVars >>

\* the promise settles for a caller that keeps no state of its own
PrintReceiptDone(s) ==
  /\ PrintReceiptSettled(s)
  /\ UNCHANGED << databaseVars, appVars, migrationVars >>

PrinterNext ==
  \/ \E s \in Services, a \in PrinterAddresses : ConnectToPrinter(s, a)
  \/ \E a \in PrinterAddresses : MockConnectResume(a)
  \/ \E s \in Services : DisconnectPrinter(s)
  \/ MockDisconnectResume
  \/ ConnectionLost
  \/ \E s \in Services : PrintReceiptCall(s)
  \/ \E s \in Services : PrintReceiptDone(s)

PrinterSpec == Init /\ [][PrinterNext]_vars

\* the mock service alone: connecting, also with an address it does not
\* list, disconnecting and printing, every call interleaved with the others
MockNext ==
  \/ \E a \in PrinterAddresses \cup { UnknownAddress } :
       ConnectToPrinter("mock", a)
  \/ \E a \in PrinterAddresses : MockConnectResume(a)
  \/ DisconnectPrinter("mock")
  \/ MockDisconnectResume
  \/ PrintReceiptCall("mock")
  \/ PrintReceiptDone("mock")

MockSpec == Init /\ [][MockNext]_vars

(* ------------------- the receipt form (HomeScreen) --------------------- *)
\* a number as the quotient num / den of two integers, den > 0
Fraction(num, den) == [num |-> num, den |-> den]
NaN == [num |-> 0, den |-> 0]

RECURSIVE Pow10(_)
Pow10(k) == IF k = 0 THEN 1 ELSE 10 * Pow10(k - 1)

IsDigit(c) == \E d \in 1..10 : DigitChar[d] = c
CharDigit(c) == (CHOOSE d \in 1..10 : DigitChar[d] = c) - 1

\* how many digits s carries from position from on
DigitRun(s, from) ==
  CHOOSE k \in 0..(Len(s) - from + 1) :
    /\ \A i \in from..(from + k - 1) : IsDigit(s[i])
    /\ (from + k <= Len(s)) => ~IsDigit(s[from + k])

RECURSIVE DigitsToNat(_)
DigitsToNat(ds) ==
  IF Len(ds) = 0 THEN 0
  ELSE 10 * DigitsToNat(SubSeq(ds, 1, Len(ds) - 1)) + CharDigit(ds[Len(ds)])

\* parseFloat of an unsigned decimal without exponent: the longest prefix
\* of the form digits [. digits], NaN when that prefix holds no digit
parseFloat(s) ==
  LET i == DigitRun(s, 1)
      hasPoint == i + 1 <= Len(s) /\ s[i + 1] = "."
      f == IF hasPoint THEN DigitRun(s, i + 2) ELSE 0
  IN  IF i + f = 0 THEN NaN
      ELSE Fraction(DigitsToNat(SubSeq(s, 1, i)) * Pow10(f)
                      + DigitsToNat(SubSeq(s, i + 2, i + 1 + f)),
                    Pow10(f))

\* parseFloat(v) || 0
OrZero(x) == IF x = NaN THEN Fraction(0, 1) ELSE x

Minus(a, b) == Fraction(a.num * b.den - b.num * a.den, a.den * b.den)
Plus(a, b) == Fraction(a.num * b.den + b.num * a.den, a.den * b.den)
Times(a, b) == Fraction(a.num * b.num, a.den * b.den)

Abs(n) == IF n < 0 THEN 0 - n ELSE n

\* Number.prototype.toFixed(2): the nearest multiple of 0.01; a decimal
\* lying half way between two of them is no binary double, and the double
\* computed for it may lie on either side
toFixed2(x) ==
  LET scaled == Abs(x.num) * 100
      q == scaled \div x.den
      r == scaled % x.den
      hundredths == IF 2 * r < x.den THEN { q }
                    ELSE IF 2 * r > x.den THEN { q + 1 }
                    ELSE { q, q + 1 }
      sign == IF x.num < 0 THEN << "-" >> ELSE << >>
  IN  { sign \o NumToString(h \div 100) \o << "." >>
          \o padStart(NumToString(h % 100), 2, "0") : h \in hundredths }

\* a total that leaves the transportation fee out
totalPrice_WithoutFee(data) ==
  toFixed2(Times(Minus(OrZero(parseFloat(data.totalCopra)),
                       OrZero(parseFloat(data.totalDeduction))),
                 OrZero(parseFloat(data.copraPrice))))

\* const totalPrice = useMemo(...): (copra - deduction) * price + fee,
\* toFixed(2); the strings it may be
totalPrice(data) ==
  LET price == OrZero(parseFloat(data.copraPrice))
      copra == OrZero(parseFloat(data.totalCopra))
      deduction == OrZero(parseFloat(data.totalDeduction))
      fee == OrZero(parseFloat(data.transportationFee))
      netCopra == Minus(copra, deduction)
  IN  toFixed2(Plus(Times(netCopra, price), fee))

\* receiptFormSchema: the data handleSubmit lets through
receiptFormSchema(data) ==
  /\ data.customer # << >> /\ data.address # << >>
  /\ parseFloat(data.copraPrice) # NaN /\ parseFloat(data.copraPrice).num > 0
  /\ parseFloat(data.totalCopra) # NaN /\ parseFloat(data.totalCopra).num > 0
  /\ parseFloat(data.totalDeduction) # NaN
  /\ parseFloat(data.transportationFee) # NaN

\* what the operator may have typed into the form; the last entry is the
\* form's defaultValues
FormEntries ==
  { [customer |-> << "A", "n", "a" >>, address |-> << "L", "i", "p", "a" >>,
     copraPrice |-> << "8", ".", "5" >>,
     totalCopra |-> << "1", "0", "0", "0" >>,
     totalDeduction |-> << "5", "0" >>,
     transportationFee |-> << "1", "0", "0" >>],
    [customer |-> << "B", "e", "n" >>, address |-> << "L", "i", "p", "a" >>,
     copraPrice |-> << "0", ".", "1", "5" >>,
     totalCopra |-> << "0", ".", "3" >>,
     totalDeduction |-> << "0" >>,
     transportationFee |-> << "0" >>],
    [customer |-> << "C", "y" >>, address |-> << "L", "i", "p", "a" >>,
     copraPrice |-> << "8", ".", "5" >>,
     totalCopra |-> << "0", ".", "3" >>,
     totalDeduction |-> << "5", "0" >>,
     transportationFee |-> << "0" >>],
    [customer |-> << >>, address |-> << >>,
     copraPrice |-> << "0" >>, totalCopra |-> << "0" >>,
     totalDeduction |-> << "0" >>, transportationFee |-> << "0" >>] }

\* the receipt numbers caller p may pass to saveReceipt
SaveableNumbers(p) == { held[p] } \ { NoNumber }

\* onSubmit: saveReceipt(receiptNumber, data.customer, ..., totalPrice)
OnSubmit(p) ==
  \E n \in SaveableNumbers(p), data \in FormEntries :
    /\ receiptFormSchema(data)
    /\ \E total \in totalPrice(data) :
         CallSaveReceipt(p, n,
           [customer |-> data.customer, address |-> data.address,
            copraPrice |-> data.copraPrice, totalCopra |-> data.totalCopra,
            totalDeduction |-> data.totalDeduction,
            transportationFee |-> data.transportationFee,
            totalPrice |-> total])

(* ------------- one transaction on the receipt screen ------------------- *)
\* the values saveReceipt is given: the form fields and the total shown
FormFields(data, total) ==
  [customer |-> data.customer, address |-> data.address,
   copraPrice |-> data.copraPrice, totalCopra |-> data.totalCopra,
   totalDeduction |-> data.totalDeduction,
   transportationFee |-> data.transportationFee, totalPrice |-> total]

\* the screen's caller has no database call in flight
ScreenAt(p, where) == home.pc = where /\ pc[p] = "idle"

\* fetchReceiptNumber(): await generateUniqueReceiptNumber(), whose result
\* setReceiptNumber stores (held)
FetchReceiptNumber(p, next) ==
  /\ MethodCalled(p, "generate", NoArg)
  /\ home' = [home EXCEPT !.pc = next]
  /\ UNCHANGED << printerVars, auth, staleLogin, migrationVars >>

\* useEffect on isAuthenticated: fetchReceiptNumber()
MountHome(p) ==
  /\ home.pc = "mount"
  /\ FetchReceiptNumber(p, "form")

\* onSubmit on the screen: await saveReceipt(receiptNumber, data...,
\* totalPrice) with the values entered
SubmitReceipt(p) ==
  /\ ScreenAt(p, "form")
  /\ \E data \in FormEntries :
       /\ receiptFormSchema(data)
       /\ \E total \in totalPrice(data) :
            /\ MethodCalled(p, "saveReceipt",
                 [receiptNumber |-> held[p],
                  fields |-> FormFields(data, total)])
            /\ home' = [home EXCEPT !.pc = "saving",
                                    !.form = FormFields(data, total),
                                    !.submitted = held[p]]
  /\ UNCHANGED << printerVars, auth, staleLogin, migrationVars >>

\* onSubmit resumes after saveReceipt: await fetchReceiptNumber(); the
\* receipt modal opens once the new number is set
SubmitResume(p) ==
  /\ ScreenAt(p, "saving")
  /\ FetchReceiptNumber(p, "modal")

\* handlePrint with a printer connected: generateReceiptText() puts the
\* receiptNumber of the screen on the text; await printReceipt(text)
HandlePrint(p, s) ==
  /\ ScreenAt(p, "modal")
  /\ connectedPrinter[s] # NoPrinter
  /\ PrintReceiptCalled(s)
  /\ home' = [home EXCEPT !.pc = "printing", !.printed = held[p]]
  /\ UNCHANGED << databaseVars, auth, staleLogin, migrationVars >>

\* handlePrint resumes: if (success) await saveReceipt(receiptNumber,
\* watch(...), totalPrice); otherwise the failure is shown and the
\* operator may print again
HandlePrintResume(p, s) ==
  /\ home.pc = "printing"
  /\ PrintReceiptSettled(s)
  /\ IF printReturn'.outcome = "true"
     THEN /\ MethodCalled(p, "saveReceipt",
               [receiptNumber |-> held[p], fields |-> home.form])
          /\ home' = [home EXCEPT !.pc = "printSaving"]
     ELSE /\ home' = [home EXCEPT !.pc = "modal"]
          /\ UNCHANGED databaseVars
  /\ UNCHANGED << auth, staleLogin, migrationVars >>

\* handlePrint resumes after saveReceipt: fetchReceiptNumber(), not
\* awaited, and the success message
HandlePrintFinish(p) ==
  /\ ScreenAt(p, "printSaving")
  /\ FetchReceiptNumber(p, "printed")

(* ----------------- the auth store (authStore.ts 57-109) ---------------- *)
\* set({ user: username, isAuthenticated: true, isLoading: false,
\*       error: null })
LoginSucceeded(a, username) ==
  [user |-> username, isAuthenticated |-> TRUE, isLoading |-> FALSE,
   error |-> NoError]

\* a failure that also drops the session
LoginFailed_DropsSession(a) ==
  [user |-> NoUser, isAuthenticated |-> FALSE, isLoading |-> FALSE,
   error |-> "Invalid credentials"]

\* set({ isLoading: false, error: "Invalid credentials. ..." })
LoginFailed(a) ==
  [a EXCEPT !.isLoading = FALSE, !.error = "Invalid credentials"]

\* the store after loginUser resolved to success
LoginSettled(a, success, username) ==
  IF success THEN LoginSucceeded(a, username) ELSE LoginFailed(a)

\* login(username, password): set({ isLoading: true, error: null }), then
\* await loginUser(username, password)
AuthLogin(p, username, password) ==
  /\ MethodCalled(p, "login", [username |-> username, password |-> password])
  /\ auth' = [auth EXCEPT !.isLoading = TRUE, !.error = NoError]
  /\ staleLogin' = [staleLogin EXCEPT ![p] = FALSE]
  /\ UNCHANGED << printerVars, home, migrationVars >>

\* the store once this step of loginUser is made: set(...) when loginUser
\* resolved in it, nothing while loginUser goes on to a retry
AuthAfterLoginStep(p) ==
  /\ auth' = IF pc'[p] = "idle"
             THEN LoginSettled(auth, last'.val, arg[p].username)
             ELSE auth
  /\ UNCHANGED << printerVars, home, staleLogin, migrationVars >>

\* loginUser resumes after ensureRealm(); login resumes when it resolves
AuthLoginResume(p) ==
  /\ LoginResumed(p)
  /\ AuthAfterLoginStep(p)

\* loginUser's retry timer fires; login resumes when it resolves
AuthLoginWake(p) ==
  /\ LoginWoken(p)
  /\ AuthAfterLoginStep(p)

\* logout(): set({ user: null, isAuthenticated: false, error: null }), from
\* the settings screen's button or after its database reset
Logout ==
  /\ auth' = [auth EXCEPT !.user = NoUser, !.isAuthenticated = FALSE,
                          !.error = NoError]
  /\ staleLogin' = [p \in Procs |-> op[p] = "login"]
  /\ last' = NoReturn
  /\ UNCHANGED << layerVars, storeVars, clock, pc, op, arg, hasRealm,
                  retryCount, attempts, held, observers, printerVars, home,
                  migrationVars >>

(* --------------------------- specification ----------------------------- *)

\* steps of an initialization in flight that every method can start
Lifecycle ==
  \/ \E p \in Procs : OpenSucceed(p)
  \/ \E p \in Procs : OpenFail(p)
  \/ \E p \in Procs : InitRealmReturn(p)
  \/ \E p \in Procs : EnsureRealmResume(p)
  \/ CloseRealm

\* the same steps in an application that never calls closeRealm
LazyInitialization ==
  \/ \E p \in Procs : OpenSucceed(p)
  \/ \E p \in Procs : OpenFail(p)
  \/ \E p \in Procs : InitRealmReturn(p)
  \/ \E p \in Procs : EnsureRealmResume(p)

\* the form values onSubmit and handlePrint both pass to saveReceipt
RacePayloads == { f \in Payloads : f.customer = "Ana" }

\* the receipt ledger, initialized lazily, with one caller at a time
LedgerCallers == { "p1" }

LedgerNext ==
  \/ Lifecycle
  \/ \E p \in LedgerCallers : CallGenerateUniqueReceiptNumber(p)
  \/ \E p \in LedgerCallers : GenerateUniqueReceiptNumberBody(p)
  \/ \E p \in LedgerCallers : \E n \in SaveableNumbers(p), f \in RacePayloads :
       CallSaveReceipt(p, n, f)
  \/ \E p \in LedgerCallers : SaveReceiptBody(p)
  \/ \E p \in LedgerCallers : CallResetDatabase(p)
  \/ \E p \in LedgerCallers : ResetDatabaseBody(p)

LedgerSpec == Init /\ [][LedgerNext]_vars

\* two callers numbering and saving receipts concurrently, as onSubmit and
\* handlePrint of the receipt form do
RaceNext ==
  \/ LazyInitialization
  \/ \E p \in Procs : CallGenerateUniqueReceiptNumber(p)
  \/ \E p \in Procs : GenerateUniqueReceiptNumberBody(p)
  \/ \E p \in Procs : \E n \in SaveableNumbers(p), f \in RacePayloads :
       CallSaveReceipt(p, n, f)
  \/ \E p \in Procs : SaveReceiptBody(p)

RaceSpec == Init /\ [][RaceNext]_vars

\* explicit and lazy initialization by two callers: initDatabase at import
\* time and from the root layout, loginUser and getDefaultSettings from the
\* screens
LifecycleNext ==
  \/ Lifecycle
  \/ \E p \in Procs : CallInitialize(p)
  \/ \E p \in Procs : PollWake(p)
  \/ \E p \in Procs : InitializeResume(p)
  \/ \E p \in Procs : \E u \in Usernames, pw \in Passwords : CallLogin(p, u, pw)
  \/ \E p \in Procs : LoginResume(p)
  \/ \E p \in Procs : LoginWake(p)
  \/ \E p \in Procs : CallGetDefaultSettings(p)
  \/ \E p \in Procs : GetDefaultSettingsBody(p)

LifecycleSpec == Init /\ [][LifecycleNext]_vars

\* initialize() and a lazily initializing read by two callers of an
\* application that never calls closeRealm
WaitingNext ==
  \/ LazyInitialization
  \/ \E p \in Procs : CallInitialize(p)
  \/ \E p \in Procs : PollWake(p)
  \/ \E p \in Procs : InitializeResume(p)
  \/ \E p \in Procs : CallGetDefaultSettings(p)
  \/ \E p \in Procs : GetDefaultSettingsBody(p)

WaitingSpec == Init /\ [][WaitingNext]_vars

\* the requests of a screen arriving while initDatabase's open is in
\* flight, in a run where every Realm.open resolves and closeRealm is never
\* called
StartupNext ==
  \/ \E p \in Procs : OpenSucceed(p)
  \/ \E p \in Procs : InitRealmReturn(p)
  \/ \E p \in Procs : EnsureRealmResume(p)
  \/ \E p \in Procs : CallInitialize(p)
  \/ \E p \in Procs : PollWake(p)
  \/ \E p \in Procs : InitializeResume(p)
  \/ \E p \in LedgerCallers : CallGetDefaultSettings(p)
  \/ \E p \in LedgerCallers : GetDefaultSettingsBody(p)
  \/ \E p \in LedgerCallers : CallSaveDefaultSettings(p, "8.50", "50")
  \/ \E p \in LedgerCallers : SaveDefaultSettingsBody(p)
  \/ \E p \in LedgerCallers : CallRegister(p, "maria", "admin123")
  \/ \E p \in LedgerCallers : RegisterBody(p)
  \/ \E p \in LedgerCallers : CallGenerateUniqueReceiptNumber(p)
  \/ \E p \in LedgerCallers : GenerateUniqueReceiptNumberBody(p)
  \/ \E p \in LedgerCallers : \E n \in SaveableNumbers(p), f \in RacePayloads :
       CallSaveReceipt(p, n, f)
  \/ \E p \in LedgerCallers : SaveReceiptBody(p)
  \/ \E p \in LedgerCallers : CallGetAllReceipts(p)
  \/ \E p \in LedgerCallers : GetAllReceiptsBody(p)

StartupSpec == Init /\ [][StartupNext]_vars

\* two callers registering operators and resetting the database while the
\* layer is opened, closed and opened again
RegistrationNext ==
  \/ Lifecycle
  \/ \E p \in Procs : \E u \in Usernames, pw \in Passwords :
       CallRegister(p, u, pw)
  \/ \E p \in Procs : RegisterBody(p)
  \/ \E p \in Procs : CallResetDatabase(p)
  \/ \E p \in Procs : ResetDatabaseBody(p)

RegistrationSpec == Init /\ [][RegistrationNext]_vars

\* one caller using every method that writes, the settings it saves being
\* other than the defaults
WritesNext ==
  \/ Lifecycle
  \/ \E p \in LedgerCallers : \E u \in Usernames, pw \in Passwords :
       CallRegister(p, u, pw)
  \/ \E p \in LedgerCallers : RegisterBody(p)
  \/ \E p \in LedgerCallers :
       \E c \in PriceValues \ { DEFAULT_SETTINGS.copraPrice },
          t \in FeeValues \ { DEFAULT_SETTINGS.transportationFee } :
         CallSaveDefaultSettings(p, c, t)
  \/ \E p \in LedgerCallers : SaveDefaultSettingsBody(p)
  \/ \E p \in LedgerCallers : CallGenerateUniqueReceiptNumber(p)
  \/ \E p \in LedgerCallers : GenerateUniqueReceiptNumberBody(p)
  \/ \E p \in LedgerCallers : \E n \in SaveableNumbers(p), f \in RacePayloads :
       CallSaveReceipt(p, n, f)
  \/ \E p \in LedgerCallers : SaveReceiptBody(p)

WritesSpec == Init /\ [][WritesNext]_vars

\* one caller registering operators, logging in and listing them
AccountsNext ==
  \/ Lifecycle
  \/ \E p \in LedgerCallers : \E u \in Usernames, pw \in Passwords :
       CallRegister(p, u, pw)
  \/ \E p \in LedgerCallers : RegisterBody(p)
  \/ \E p \in LedgerCallers : \E u \in Usernames, pw \in Passwords :
       CallLogin(p, u, pw)
  \/ \E p \in LedgerCallers : LoginResume(p)
  \/ \E p \in LedgerCallers : LoginWake(p)
  \/ \E p \in LedgerCallers : CallGetAllUsers(p)
  \/ \E p \in LedgerCallers : GetAllUsersBody(p)

AccountsSpec == Init /\ [][AccountsNext]_vars

\* one caller saving and reading the default settings and resetting the
\* database, as the settings screen does
SettingsNext ==
  \/ Lifecycle
  \/ \E p \in LedgerCallers : \E c \in PriceValues, t \in FeeValues :
       CallSaveDefaultSettings(p, c, t)
  \/ \E p \in LedgerCallers : SaveDefaultSettingsBody(p)
  \/ \E p \in LedgerCallers : CallGetDefaultSettings(p)
  \/ \E p \in LedgerCallers : GetDefaultSettingsBody(p)
  \/ \E p \in LedgerCallers : CallResetDatabase(p)
  \/ \E p \in LedgerCallers : ResetDatabaseBody(p)

SettingsSpec == Init /\ [][SettingsNext]_vars

\* one caller numbering, saving and listing receipts, as the receipt form
\* and the history screen do
ListingNext ==
  \/ Lifecycle
  \/ \E p \in LedgerCallers : CallGenerateUniqueReceiptNumber(p)
  \/ \E p \in LedgerCallers : GenerateUniqueReceiptNumberBody(p)
  \/ \E p \in LedgerCallers : \E n \in SaveableNumbers(p), f \in Payloads :
       CallSaveReceipt(p, n, f)
  \/ \E p \in LedgerCallers : SaveReceiptBody(p)
  \/ \E p \in LedgerCallers : CallGetAllReceipts(p)
  \/ \E p \in LedgerCallers : GetAllReceiptsBody(p)

ListingSpec == Init /\ [][ListingNext]_vars

\* the receipt form: fetchReceiptNumber, then onSubmit with the total the
\* form computed
FormNext ==
  \/ LazyInitialization
  \/ \E p \in LedgerCallers : CallGenerateUniqueReceiptNumber(p)
  \/ \E p \in LedgerCallers : GenerateUniqueReceiptNumberBody(p)
  \/ \E p \in LedgerCallers : OnSubmit(p)
  \/ \E p \in LedgerCallers : SaveReceiptBody(p)

FormSpec == Init /\ [][FormNext]_vars

\* one transaction of the receipt screen: numbered, submitted, printed on
\* either service, in an application that never calls closeRealm
HomeNext ==
  \/ LazyInitialization
  \/ \E s \in Services, a \in PrinterAddresses : ConnectToPrinter(s, a)
  \/ \E a \in PrinterAddresses : MockConnectResume(a)
  \/ \E p \in LedgerCallers : MountHome(p)
  \/ \E p \in LedgerCallers : GenerateUniqueReceiptNumberBody(p)
  \/ \E p \in LedgerCallers : SubmitReceipt(p)
  \/ \E p \in LedgerCallers : SaveReceiptBody(p)
  \/ \E p \in LedgerCallers : SubmitResume(p)
  \/ \E p \in LedgerCallers, s \in Services : HandlePrint(p, s)
  \/ \E p \in LedgerCallers, s \in Services : HandlePrintResume(p, s)
  \/ \E p \in LedgerCallers : HandlePrintFinish(p)

HomeSpec == Init /\ [][HomeNext]_vars

\* the login screen and the settings screen driving the auth store, two
\* login calls possibly in flight, in an application that never calls
\* closeRealm
AuthNext ==
  \/ LazyInitialization
  \/ \E p \in Procs : \E u \in Usernames, pw \in Passwords :
       AuthLogin(p, u, pw)
  \/ \E p \in Procs : AuthLoginResume(p)
  \/ \E p \in Procs : AuthLoginWake(p)
  \/ Logout

AuthSpec == Init /\ [][AuthNext]_vars

\* the first launches of the build on a device that holds a file of an
\* earlier schema version: one caller initializes, lists the receipts, reads
\* the settings and logs in
MigrationNext ==
  \/ \E p \in LedgerCallers, old \in VersionOneFiles \cup VersionTwoFiles :
       OpenMigrating(p, old)
  \/ \E p \in LedgerCallers : InitRealmReturn(p)
  \/ \E p \in LedgerCallers : EnsureRealmResume(p)
  \/ \E p \in LedgerCallers : CallInitialize(p)
  \/ \E p \in LedgerCallers : InitializeResume(p)
  \/ \E p \in LedgerCallers : CallGetAllReceipts(p)
  \/ \E p \in LedgerCallers : GetAllReceiptsBody(p)
  \/ \E p \in LedgerCallers : CallGetDefaultSettings(p)
  \/ \E p \in LedgerCallers : GetDefaultSettingsBody(p)
  \/ \E p \in LedgerCallers : CallLogin(p, "admin", "admin123")
  \/ \E p \in LedgerCallers : LoginResume(p)
  \/ \E p \in LedgerCallers : LoginWake(p)

MigrationSpec == Init /\ [][MigrationNext]_vars

(* ======================= the claims, C1 .. ============================= *)
DigitValue(c) == CHOOSE d \in 0..9 : DigitChar[d + 1] = c

RECURSIVE DecimalValue(_)
\* the number a sequence of digit characters denotes
DecimalValue(ds) ==
  IF Len(ds) = 0 THEN 0
  ELSE 10 * DecimalValue(SubSeq(ds, 1, Len(ds) - 1)) + DigitValue(ds[Len(ds)])

\* s is "RCT-" followed by n written with exactly four digits
IsReceiptNumberOf(s, n) ==
  /\ Len(s) = 8
  /\ SubSeq(s, 1, 4) = << "R", "C", "T", "-" >>
  /\ \A i \in 5..8 : s[i] \in Range(DigitChar)
  /\ DecimalValue(SubSeq(s, 5, 8)) = n

\* the latest step was generateUniqueReceiptNumber returning a number it
\* derived from the store (the layer was Ready when it ran)
GeneratedFromStore == last.op = "generate" /\ last.path = "store"

\* caller p resumes the named method in this step, with the store open
RunsOnStore(p, o) == AtBody(p, o) /\ hasRealm[p] /\ realm

(* C1: in every reachable state no two stored receipt records have the same
   receipt number, also when two concurrent callers obtained the same
   candidate from generateUniqueReceiptNumber before either wrote and both
   then call saveReceipt. *)
C1_UniqueReceiptNumbers ==
  \A i, j \in 1..Len(receipts) :
    i # j => receipts[i].receiptNumber # receipts[j].receiptNumber

\* both callers hold the same candidate, which only the store can have given
\* them, one has stored it and the other's saveReceipt has just returned
C1_Witness ==
  /\ held["p1"] = held["p2"]
  /\ held["p1"] = FormatReceiptNumber(MaxRandom + 1)
  /\ last.op = "saveReceipt" /\ last.path = "exists"
  /\ last.val = held["p1"]
  /\ Cardinality({ i \in 1..Len(receipts) :
                     receipts[i].receiptNumber = held["p1"] }) = 1

(* C2: when the layer is Ready, generateUniqueReceiptNumber returns "RCT-"
   followed by n zero-padded to 4 digits, where n is the smallest integer
   >= (number of stored receipts + 1) whose formatted number is not the
   receipt number of a stored receipt; so the returned number is never
   present in the store. *)
C2_SmallestFreeNumber ==
  GeneratedFromStore =>
    /\ last.val \notin ReceiptNumbers(receipts)
    /\ \E n \in (Len(receipts) + 1)..(2 * Len(receipts) + 1) :
         /\ IsReceiptNumberOf(last.val, n)
         /\ \A m \in (Len(receipts) + 1)..(n - 1) :
              \E i \in 1..Len(receipts) :
                IsReceiptNumberOf(receipts[i].receiptNumber, m)

\* the probe went past count + 1: a number was saved out of order
C2_Witness ==
  /\ GeneratedFromStore
  /\ \E n \in (Len(receipts) + 2)..(2 * Len(receipts) + 1) :
       IsReceiptNumberOf(last.val, n)

\* caller p's call of the named method returns in this step
Returns(p, o) == AtBody(p, o) /\ pc'[p] = "idle"

(* C3 (as amended): generateUniqueReceiptNumber called any number of times
   by a caller that finds the layer Ready, with no change of the ledger in
   between (no receipt inserted, no resetDatabase), returns the same
   candidate each time and leaves the store unchanged; the candidate is not
   the number of any stored receipt, so once it has been saved the next
   candidate differs from it, and as long as no receipt has been deleted it
   has never been used by any receipt before. *)
C3_StableThenFresh ==
  [][\A p \in Procs :
       (RunsOnStore(p, "generate") /\ Returns(p, "generate")) =>
         /\ UNCHANGED storeVars
         /\ candidate # NoNumber => last'.val = candidate
         /\ last'.val \notin ReceiptNumbers(receipts)
         /\ usedNumbers \subseteq ReceiptNumbers(receipts) =>
              last'.val \notin usedNumbers]_vars

\* a receipt was saved and the next candidate has just been computed
C3_Witness ==
  /\ GeneratedFromStore
  /\ usedNumbers # { }
  /\ usedNumbers = ReceiptNumbers(receipts)
  /\ held["p1"] = last.val
  /\ last.val \notin usedNumbers

(* C3 as stated: ... once a receipt has been saved, the next candidate
   differs from the previous one and has never been used by any receipt
   before. *)
C3_Original_NeverUsedBefore ==
  [][\A p \in Procs :
       (RunsOnStore(p, "generate") /\ Returns(p, "generate")) =>
         /\ UNCHANGED storeVars
         /\ candidate # NoNumber => last'.val = candidate
         /\ last'.val \notin usedNumbers]_vars

(* C4: saveReceipt called with a receipt number that already exists in the
   store is a silent no-op (the ledger is unchanged, the existing record
   keeps its fields and creation timestamp, the call returns normally);
   otherwise exactly one new record carrying the given fields is
   inserted. *)
C4_NoOpOrInsert ==
  [][\A p \in Procs :
       Returns(p, "saveReceipt") =>
         IF arg[p].receiptNumber \in ReceiptNumbers(receipts)
         THEN receipts' = receipts /\ last'.outcome = "ok"
         ELSE /\ Len(receipts') = Len(receipts) + 1
              /\ SubSeq(receipts', 1, Len(receipts)) = receipts
              /\ \E now \in 0..MaxClock :
                   receipts'[Len(receipts')] =
                     NewReceipt(arg[p].receiptNumber, arg[p].fields, now)]_vars

(* C5: the receipt ledger is append-only: across any sequence of operations
   that contains no resetDatabase, a stored receipt record is never deleted
   and none of its fields changes. *)
C5_AppendOnly ==
  [][(\A p \in Procs : ~Returns(p, "reset")) =>
       /\ Len(receipts') >= Len(receipts)
       /\ \A i \in 1..Len(receipts) : receipts'[i] = receipts[i]]_vars

\* a receipt has just been added to a ledger that already held one saved
\* earlier
C5_Witness ==
  /\ last.op = "saveReceipt" /\ last.applied
  /\ Len(receipts) >= 2
  /\ receipts[1].createdAt < receipts[Len(receipts)].createdAt

\* caller p invokes initialize() in this step
CallsInitialize(p) ==
  /\ pc[p] = "idle"
  /\ \/ op'[p] = "initialize"
     \/ last'.proc = p /\ last'.op = "initialize"

OpensInFlight == { p \in Procs : pc[p] = "opening" }

(* C6: for every interleaving of concurrent initialize() calls and lazily
   initializing operations, at most one storage open is in flight at any
   time, and an initialize() call made while the layer is Ready returns
   immediately without opening storage or running the seeding step again. *)
C6_SingleOpenInFlight ==
  [][/\ Cardinality(OpensInFlight') <= 1
     /\ \A p \in Procs :
          (CallsInitialize(p) /\ initialized) =>
            /\ pc'[p] = "idle"
            /\ last'.proc = p /\ last'.outcome = "ok"
            /\ UNCHANGED << layerVars, storeVars >>]_vars

\* an open is in flight while the other caller, which found it in flight,
\* waits for it
C6_Witness ==
  \E p, q \in Procs :
    /\ pc[p] = "opening"
    /\ pc[q] \in { "poll", "ensureCont" }

\* caller p's Realm.open rejects in this step
OpenFails(p) == pc[p] = "opening" /\ pc'[p] \notin { "opening", "seeded" }

\* caller p's Realm.open resolves in this step
OpenSucceeds(p) == pc[p] = "opening" /\ pc'[p] = "seeded"

(* C7: when the storage open fails during initialization, the layer returns
   to Uninitialized (no handle held, initialized = false, initializing =
   false), the error is reported to the initialize() caller, and a later
   initialize() call attempts the open again and reaches Ready if that open
   succeeds. *)
C7_FailedOpenIsRetried ==
  [][\A p \in Procs :
       /\ OpenFails(p) =>
            /\ ~realm' /\ ~initialized' /\ ~initializing'
            /\ op[p] = "initialize" =>
                 (last'.proc = p /\ last'.outcome = "error")
       /\ (CallsInitialize(p) /\ ~initialized /\ ~initializing) =>
            (pc'[p] = "opening" /\ initializing')
       /\ OpenSucceeds(p) => (realm' /\ initialized')]_vars

\* initialize() has just reported a failed open and the layer is
\* Uninitialized again
C7_Witness ==
  /\ last.op = "initialize" /\ last.outcome = "error" /\ last.path = "open"
  /\ ~realm /\ ~initialized /\ ~initializing

\* the latest step was a method returning without having had the store
StorageWasUnavailable == last.path = "fallback"

(* C8: every public operation invoked before the layer is Ready triggers
   lazy initialization, retries it up to 3 times with a fixed backoff when
   initialization fails, and, if all retries fail, fails with a
   StorageUnavailable error. *)
C8_RetriesThenFails ==
  StorageWasUnavailable =>
    (last.outcome = "error" /\ last.retries = maxRetries)

(* C9: for registerUser, saveReceipt and saveDefaultSettings a write that
   does not take effect is reported to the caller as an explicit failure:
   the call returns normally only if the write was applied to the store or
   it was one of the documented no-ops (duplicate username, duplicate
   receipt number). *)
C9_LostWriteIsReported ==
  (last.op \in { "register", "saveReceipt", "saveDefaults" }
     /\ last.outcome = "ok") =>
    (last.applied \/ last.path = "exists")

\* how many records of a collection satisfy a test
Count(seq, Test(_)) == Cardinality({ i \in 1..Len(seq) : Test(seq[i]) })

(* C10: seeding inserts the default operators only when the operator
   collection is empty and the default settings only when the setting
   collection is empty, so after any sequence of initialize, closeRealm and
   re-initialize each default operator and each default setting key exists
   exactly once. *)
C10_DefaultsExactlyOnce ==
  (initialized /\ ~initializing) =>
    /\ \A i \in 1..Len(DEFAULT_USERS) :
         Count(users, LAMBDA u : u.username = DEFAULT_USERS[i].username) = 1
    /\ \A k \in { KEY_PRICE, KEY_FEE } :
         Count(settings, LAMBDA st : st.key = k) = 1

\* caller p's loginUser returns in this step
LoginReturns(p) == op[p] = "login" /\ pc[p] # "idle" /\ pc'[p] = "idle"

\* some stored operator has exactly this username and this password
HasOperator(us, username, password) ==
  \E i \in 1..Len(us) :
    us[i].username = username /\ us[i].password = password

(* C11: when the layer is Ready, loginUser(username, password) returns true
   if and only if some stored operator record has exactly that username and
   exactly that password, and it never modifies the store; on a freshly
   seeded store login("admin", "admin123") is true and login("admin",
   "wrong") is false. *)
C11_LoginMatchesExactly ==
  [][\A p \in Procs :
       (LoginReturns(p) /\ realm) =>
         /\ last'.val = HasOperator(users, arg[p].username, arg[p].password)
         /\ UNCHANGED storeVars
         /\ (users = DefaultUserRecords /\ arg[p].username = "admin") =>
              (last'.val = (arg[p].password = "admin123"))]_vars

\* a login has just succeeded against a store holding the seeded operators
\* and a registered one
C11_Witness ==
  /\ last.op = "login" /\ last.path = "store" /\ last.val = TRUE
  /\ Len(users) > Len(DEFAULT_USERS)
  /\ SubSeq(users, 1, Len(DEFAULT_USERS)) = DefaultUserRecords

\* the operator records carrying a username
WithUsername(us, username) ==
  { i \in 1..Len(us) : us[i].username = username }

(* C12: registerUser(username, password) with a username that already exists
   is a no-op: the operator collection is unchanged (the existing record
   keeps its original password) and the call returns normally, so calling
   registerUser twice with the same username leaves exactly one operator
   record with that username. *)
C12_RegisterIdempotent ==
  [][\A p \in Procs :
       (RunsOnStore(p, "register") /\ Returns(p, "register")) =>
         /\ WithUsername(users, arg[p].username) # { } =>
              (users' = users /\ last'.outcome = "ok")
         /\ last'.outcome = "ok" =>
              Cardinality(WithUsername(users', arg[p].username)) = 1]_vars

\* a registration has just found its username taken, in a store that holds
\* an operator registered earlier
C12_Witness ==
  /\ last.op = "register" /\ last.path = "exists" /\ last.outcome = "ok"
  /\ Len(users) > Len(DEFAULT_USERS)
  /\ \A u \in Usernames : Cardinality(WithUsername(users, u)) = 1

(* C13: for every sequence of saveDefaultSettings calls, a subsequent
   getDefaultSettings returns exactly the unit price and transport fee
   passed to the last saveDefaultSettings call (last write wins per key). *)
C13_LastWriteWins ==
  [][\A p \in Procs :
       (RunsOnStore(p, "getDefaults") /\ Returns(p, "getDefaults")
          /\ savedDefaults # NoArg) =>
         last'.val = savedDefaults]_vars

\* the stored value of key k, NoNumber when the key has no record
StoredValue(ss, k) == SettingOr(ss, k, NoNumber)

(* C14: saveDefaultSettings applies its two key updates atomically with
   respect to each other: in no reachable state, including after a failure
   part-way through the operation, does the store hold the new value for
   one key and the stale value for the other. *)
C14_BothKeysOrNeither ==
  [][\A p \in Procs :
       Returns(p, "saveDefaults") =>
         \/ settings' = settings
         \/ /\ StoredValue(settings', KEY_PRICE) = arg[p].copraPrice
            /\ StoredValue(settings', KEY_FEE) = arg[p].transportationFee]_vars

(* C15: in every reachable state the setting collection holds at most one
   record per key (default_copra_price, default_transportation_fee), after
   any sequence of seeding, saveDefaultSettings calls (including partially
   failed ones) and resetDatabase. *)
C15_OneRecordPerKey ==
  \A k \in { KEY_PRICE, KEY_FEE } :
    Count(settings, LAMBDA st : st.key = k) <= 1

\* a saveDefaultSettings whose second write failed has just created the
\* only record of a store whose seeding had failed
C15_Witness ==
  /\ last.op = "saveDefaults" /\ last.path = "partial"
  /\ Len(settings) = 1
  /\ settings[1].key = KEY_PRICE

\* value v is what key k reads as: the stored value, "0" without a record
ReadsAs(ss, k, v) ==
  IF \E i \in 1..Len(ss) : ss[i].key = k
  THEN \E i \in 1..Len(ss) : ss[i].key = k /\ ss[i].value = v
  ELSE v = "0"

(* C16: getDefaultSettings returns, independently for each recognized key,
   the stored value when a record for that key exists and the hardcoded
   default "0" when the key is missing; when storage is unavailable or the
   read fails it returns the hardcoded defaults for both keys instead of
   failing. *)
C16_StoredOrDefault ==
  [][\A p \in Procs :
       Returns(p, "getDefaults") =>
         /\ last'.outcome = "ok"
         /\ IF RunsOnStore(p, "getDefaults")
            THEN /\ ReadsAs(settings, KEY_PRICE, last'.val.copraPrice)
                 /\ ReadsAs(settings, KEY_FEE, last'.val.transportationFee)
            ELSE last'.val = [copraPrice |-> "0", transportationFee |-> "0"]
         /\ UNCHANGED storeVars]_vars

\* a read has just returned the stored price next to the default fee, the
\* fee having no record
C16_Witness ==
  /\ last.op = "getDefaults" /\ last.path = "store"
  /\ Len(settings) = 1 /\ settings[1].key = KEY_PRICE
  /\ settings[1].value # "0"
  /\ last.val = [copraPrice |-> settings[1].value, transportationFee |-> "0"]

(* C17: after resetDatabase completes, whatever operations preceded it, the
   store contains exactly the seeded default operators, exactly the default
   settings (both keys "0") and no receipts. *)
C17_ResetRestoresDefaults ==
  [][\A p \in Procs :
       (RunsOnStore(p, "reset") /\ Returns(p, "reset")
          /\ last'.outcome = "ok") =>
         /\ users' = DefaultUserRecords
         /\ settings' = DefaultSettingRecords
         /\ receipts' = << >>]_vars

\* the listing holds every record of rs exactly once
ListsExactlyOnce(listing, rs) ==
  /\ Len(listing) = Len(rs)
  /\ \A i \in 1..Len(rs) :
       Cardinality({ j \in 1..Len(listing) : listing[j] = rs[i] }) = 1

(* C18: getAllReceipts returns every stored receipt exactly once, ordered by
   creation timestamp descending (most recent first), each returned record
   carrying the fields that were passed to saveReceipt unchanged (the total
   is stored as provided, not recomputed). *)
C18_ListsLatestFirst ==
  [][\A p \in Procs :
       /\ (RunsOnStore(p, "getAllReceipts") /\ Returns(p, "getAllReceipts")) =>
            /\ ListsExactlyOnce(last'.val, receipts)
            /\ \A i \in 1..(Len(last'.val) - 1) :
                 last'.val[i].createdAt >= last'.val[i + 1].createdAt
       /\ (Returns(p, "saveReceipt") /\ receipts' # receipts) =>
            LET r == receipts'[Len(receipts')]
                f == arg[p].fields
            IN  /\ r.receiptNumber = arg[p].receiptNumber
                /\ r.customer = f.customer /\ r.address = f.address
                /\ r.copraPrice = f.copraPrice
                /\ r.totalCopra = f.totalCopra
                /\ r.totalDeduction = f.totalDeduction
                /\ r.transportationFee = f.transportationFee
                /\ r.totalPrice = f.totalPrice]_vars

\* a listing of two receipts created at different times has just been
\* returned, the later one first
C18_Witness ==
  /\ last.op = "getAllReceipts" /\ last.path = "store"
  /\ Len(receipts) = 2 /\ Len(last.val) = 2
  /\ receipts[1].createdAt < receipts[2].createdAt
  /\ last.val[1] = receipts[2] /\ last.val[2] = receipts[1]
  /\ receipts[1].totalPrice # receipts[2].totalPrice

\* the value, in hundredths, of a field holding digits [. digit [digit]]
Hundredths(s) ==
  LET point == FirstIndex(s, LAMBDA c : c = ".")
      whole == IF point = 0 THEN s ELSE SubSeq(s, 1, point - 1)
      cents == IF point = 0 THEN << >> ELSE SubSeq(s, point + 1, Len(s))
  IN  100 * DecimalValue(whole)
        + DecimalValue(SubSeq(cents \o << "0", "0" >>, 1, 2))

\* the value, in hundredths, of a total rendered with two decimals
SignedHundredths(t) ==
  IF Len(t) > 0 /\ t[1] = "-" THEN 0 - Hundredths(Tail(t)) ELSE Hundredths(t)

\* t is a number rendered with exactly two decimals
HasTwoDecimals(t) ==
  /\ Len(t) >= 4
  /\ t[Len(t) - 2] = "."
  /\ \A i \in 1..Len(t) :
       \/ t[i] \in Range(DigitChar)
       \/ i = Len(t) - 2
       \/ i = 1 /\ t[i] = "-"

(* C19: for every receipt saved by the receipt form, the stored total equals
   (grossWeight - deductionWeight) * unitPrice + transportFee rendered with
   two decimals, within floating-point tolerance, computed from the same
   field values that are stored with it; weight 1000, deduction 50, price
   8.5 and fee 100 give the stored total "8175.00". *)
C19_StoredTotalMatchesFields ==
  \A i \in 1..Len(receipts) :
    LET r == receipts[i]
        exact == (Hundredths(r.totalCopra) - Hundredths(r.totalDeduction))
                   * Hundredths(r.copraPrice)
                 + 100 * Hundredths(r.transportationFee)
    IN  /\ HasTwoDecimals(r.totalPrice)
        /\ 2 * Abs(100 * SignedHundredths(r.totalPrice) - exact) <= 100
        /\ (/\ r.totalCopra = << "1", "0", "0", "0" >>
            /\ r.totalDeduction = << "5", "0" >>
            /\ r.copraPrice = << "8", ".", "5" >>
            /\ r.transportationFee = << "1", "0", "0" >>) =>
             r.totalPrice = << "8", "1", "7", "5", ".", "0", "0" >>

\* the ledger holds the receipt of the scenario next to one whose total is
\* negative
C19_Witness ==
  /\ Len(receipts) = 2
  /\ receipts[1].totalPrice = << "8", "1", "7", "5", ".", "0", "0" >>
  /\ receipts[2].totalPrice[1] = "-"

(* C20: the printer gateway reports the outcome of printing as a boolean for
   both the real and the mock service: printReceipt returns false (and
   sends nothing to a device) whenever no printer is connected, returns true
   only after the text was sent to a connected printer, and never throws to
   the caller. *)
C20_PrintReportsBoolean ==
  [][printReturn' # NoPrint =>
       /\ printReturn'.outcome \in { "true", "false" }
       /\ ~printReturn'.connected =>
            (printReturn'.outcome = "false" /\ sent' = sent)
       /\ printReturn'.outcome = "true" =>
            (printReturn'.connected /\ sent'[printReturn'.service] > 0)]_vars

\* the timer of caller p, waiting in initialize(), fires in this step
PollWakes(p) ==
  pc[p] = "poll" /\ (pc'[p] # "poll" \/ attempts'[p] # attempts[p])

(* C21: an initialize() call that finds an initialization already in flight
   never opens storage itself; it polls at most 50 times at 100 ms
   intervals, returns successfully if the in-flight initialization reaches
   Ready within that bound, and fails with the timed-out error when the
   bound is exceeded. *)
C21_WaitsWithoutOpening ==
  [][\A p \in Procs :
       /\ (CallsInitialize(p) /\ initializing /\ ~initialized) =>
            (pc'[p] = "poll" /\ attempts'[p] = 0 /\ UNCHANGED layerVars)
       /\ PollWakes(p) =>
            /\ pc'[p] \in { "poll", "idle" }
            /\ UNCHANGED << layerVars, storeVars >>
            /\ pc'[p] = "poll" =>
                 /\ initializing
                 /\ attempts'[p] = attempts[p] + 1
                 /\ attempts'[p] + 1 <= maxAttempts
            /\ pc'[p] = "idle" =>
                 /\ last'.proc = p /\ last'.op = "initialize"
                 /\ last'.outcome = IF initialized THEN "ok" ELSE "error"
                 /\ initializing => attempts[p] + 1 = maxAttempts]_vars

\* the wait has just ended with the error after its last poll, the open it
\* waited for being still in flight
C21_Witness ==
  /\ last.op = "initialize" /\ last.path = "waited"
  /\ last.outcome = "error"
  /\ initializing /\ ~initialized
  /\ \E q \in Procs : q # last.proc /\ pc[q] = "opening"

\* a seeding write of the initialization failed: a collection that only
\* seeding and the writers of this specification fill is still empty
SeedingFailed == Len(users) = 0 \/ Len(settings) = 0

(* C22: if a seeding write (default operators or default settings) fails
   during initialization, the store is not left flagged as initialized:
   initialization is rolled back to Uninitialized and reported as failed,
   so that a later call retries the initialization including the
   seeding. *)
C22_SeedingFailureRollsBack ==
  SeedingFailed =>
    /\ ~(initialized /\ ~initializing)
    /\ ~(last.op = "initialize" /\ last.outcome = "ok")

\* the operations of the access layer the screens call
AccessOperations ==
  { "getDefaults", "saveDefaults", "register", "generate", "saveReceipt",
    "getAllReceipts" }

(* C23: an access-layer operation (getDefaultSettings, saveDefaultSettings,
   registerUser, generateUniqueReceiptNumber, saveReceipt, getAllReceipts)
   invoked while another caller's initialization is in flight, where that
   initialization then succeeds, is performed against the opened store and
   returns the stored result, not the storage-unavailable fallback.  Where
   every open succeeds, no such operation takes the fallback. *)
C23_ServedFromOpenedStore ==
  last.op \in AccessOperations => ~StorageWasUnavailable

(* C24: in every reachable state, under any interleaving of concurrent
   registerUser calls with each other, with seeding and with resetDatabase,
   no two operator records share the same username, and an operator record
   once created is never updated or deleted except by resetDatabase. *)
C24_OperatorsUniqueAndKept ==
  [][/\ \A i, j \in 1..Len(users') :
          i # j => users'[i].username # users'[j].username
     /\ (\A p \in Procs : ~Returns(p, "reset")) =>
          /\ Len(users') >= Len(users)
          /\ \A i \in 1..Len(users) : users'[i] = users[i]]_vars

\* one caller has just registered the username the other caller, already
\* past ensureRealm, is about to register with another password
C24_Witness ==
  \E p, q \in Procs :
    /\ last.op = "register" /\ last.applied /\ last.proc = p
    /\ q # p /\ AtBody(q, "register") /\ hasRealm[q] /\ realm
    /\ \E i \in WithUsername(users, arg[q].username) :
         i = Len(users) /\ users[i].password # arg[q].password

(* C25: in every state observable by a caller (at every suspension point of
   initialize, the lazy-init path, a failed initialization and closeRealm),
   the initialized flag is true exactly when a storage handle is held:
   initialized is never true with a null handle, and a non-null handle is
   never held with initialized false. *)
C25_FlagMatchesHandle == initialized <=> realm

\* closeRealm has run while the initRealm that opened the store is still
\* suspended at its seeding await
C25_Witness ==
  /\ ~initialized /\ ~realm
  /\ \E p \in Procs : pc[p] = "seeded"

\* the transaction of the screen is complete: submitted, printed, and the
\* record of the print handed to saveReceipt, which has returned
TransactionPrinted(p) ==
  \/ ScreenAt(p, "printSaving")
  \/ home.pc = "printed"

(* C26: a single transaction that is submitted on the receipt form (saved)
   and then printed successfully results in exactly one stored receipt
   record, and the receipt number on the printed text equals the receipt
   number of that stored record. *)
C26_OneReceiptPerTransaction ==
  \A p \in LedgerCallers :
    (TransactionPrinted(p) /\ home.submitted \in ReceiptNumbers(receipts)) =>
      /\ Len(receipts) = 1
      /\ receipts[1].receiptNumber = home.printed

(* C27: after logout() the auth store stays unauthenticated until a login
   call issued after that logout succeeds: a login call that was already
   in flight when logout ran (including the forced logout after a database
   reset) does not re-authenticate the session when it later resolves. *)
C27_StaleLoginDoesNotAuthenticate ==
  [][(~auth.isAuthenticated /\ auth'.isAuthenticated) =>
       \E p \in Procs : LoginReturns(p) /\ ~staleLogin[p]]_vars

(* C28: in every reachable state of the auth store, isAuthenticated is true
   exactly when user is non-null; a failed or erroring login leaves user
   and isAuthenticated unchanged (a previously authenticated session stays
   authenticated as the same user) and only sets error and clears
   isLoading. *)
C28_SessionConsistent ==
  [][/\ auth'.isAuthenticated <=> auth'.user # NoUser
     /\ \A p \in Procs :
          (LoginReturns(p) /\ last'.val = FALSE) =>
            /\ auth'.user = auth.user
            /\ auth'.isAuthenticated = auth.isAuthenticated
            /\ ~auth'.isLoading /\ auth'.error # NoError]_vars

\* a login has just failed while the session of an operator who logged in
\* earlier is open
C28_Witness ==
  /\ last.op = "login" /\ last.val = FALSE /\ last.path = "store"
  /\ auth.isAuthenticated /\ auth.user = "admin"
  /\ auth.error # NoError /\ ~auth.isLoading

\* the entries of the mock printer list marked connected
ConnectedEntries == { a \in PrinterAddresses : mockPrinters[a] }

(* C29: in the mock printer service, under any interleaving of
   connectToPrinter and disconnectPrinter calls, connectedPrinter is
   non-null exactly when exactly one entry of the mock printer list has
   connected = true, and that entry has the same address as
   connectedPrinter; connectToPrinter with an unknown address returns false
   and changes nothing. *)
C29_MockListMatchesConnection ==
  [][/\ connectedPrinter'["mock"] # NoPrinter <=>
          Cardinality(ConnectedEntries') = 1
     /\ connectedPrinter'["mock"] # NoPrinter =>
          ConnectedEntries' = { connectedPrinter'["mock"] }
     /\ (mockReturn'.call = "connect"
           /\ mockReturn'.address \notin PrinterAddresses) =>
          /\ mockReturn'.value = FALSE
          /\ UNCHANGED << connectedPrinter, mockPrinters, mockCalls >>]_vars

\* a connectToPrinter call suspended while the first printer was connected
\* has just connected the second one, a disconnectPrinter call being
\* suspended still
C29_Witness ==
  /\ mockReturn = MockReturned("connect", "66:55:44:33:22:11", TRUE)
  /\ connectedPrinter["mock"] = "66:55:44:33:22:11"
  /\ MockCall("disconnect", NoPrinter) \in mockCalls
  /\ MockCall("connect", "11:22:33:44:55:66") \in mockCalls

\* every property the old record lacks holds its default in the new one
Backfilled(oldReceipt, newReceipt) ==
  /\ "address" \notin DOMAIN oldReceipt => newReceipt.address = ""
  /\ \A property \in BackfilledProperties \ { "address" } :
       property \notin DOMAIN oldReceipt => newReceipt[property] = "0"

\* every property the old record holds has the same value in the new one
Carried(oldReceipt, newReceipt) ==
  \A property \in DOMAIN oldReceipt :
    newReceipt[property] = oldReceipt[property]

\* the store opened on the upgraded file holds the records of the old file:
\* as many receipts, each backfilled, and the same operators and settings
\* before seeding
UpgradeKeepsRecords ==
  /\ newRealm # NoRealm
  /\ Len(newRealm.receipts) = Len(oldRealm.receipts)
  /\ \A i \in 1..Len(oldRealm.receipts) :
       /\ Backfilled(oldRealm.receipts[i], newRealm.receipts[i])
       /\ Carried(oldRealm.receipts[i], newRealm.receipts[i])
  /\ newRealm.users = oldRealm.users
  /\ newRealm.settings = oldRealm.settings
  /\ realm => /\ receipts = newRealm.receipts
              /\ oldRealm.users # << >> => users = oldRealm.users
              /\ oldRealm.settings # << >> => settings = oldRealm.settings

(* C30: on upgrade from a schema version below 3, migration sets every newly
   introduced receipt field that an existing receipt record lacks to its
   default ("0" for numeric fields, empty string for text fields), leaves
   the fields an old record already had unchanged, and neither drops nor
   duplicates any receipt, operator or setting record. *)
C30_MigrationBackfills ==
  (oldRealm # NoRealm /\ oldRealm.schemaVersion < schemaVersion) =>
    UpgradeKeepsRecords

====
